---- MODULE Spec2Model ----
(***************************************************************************)
(* The real-time synchronisation server of the collaborative whiteboard    *)
(* (src/socket-server.js): the per-session element snapshots, the          *)
(* participant and active-user sets, the per-user fixed-window rate        *)
(* limiter and the socket.io event handlers that mutate them and fan out   *)
(* messages to rooms.                                                      *)
(*                                                                         *)
(* Conventions.  The empty string models a JavaScript value that is falsy  *)
(* (undefined / missing).  JavaScript objects and Maps indexed by a key    *)
(* (sessions, activeUsers, sessionParticipants, rateLimits) are functions  *)
(* whose DOMAIN is the set of keys that are present.  Every handler is one *)
(* action, except the disconnect handler, which the code suspends at an    *)
(* await and which therefore is two.                                       *)
(***************************************************************************)
EXTENDS Integers, Sequences, FiniteSets, TLC

(***************************************************************************)
(* Program constants and model bounds                                      *)
(***************************************************************************)

RATE_LIMIT_WINDOW == 1000

RATE_LIMIT_MAX == 100

\* Events each user may still send in the rate-limit window the model starts in.
Headroom == 3

\* Longest snapshot the model lets add-element build.
MaxElems == 2

\* Latest clock value the model lets Tick reach.
MaxNow == 1001
MaxFresh == 2

\* Element ids the clients may generate, events a client may have emitted
\* and the server not yet handled, and messages the server may have emitted
\* to a socket and its client not yet handled.
MaxIds == 2

MaxUp == 2

MaxDown == 3

\* Longest local collection an inbound message is applied to.
MaxLocal == 2

(***************************************************************************)
(* Value domains                                                           *)
(***************************************************************************)

Users == {"A", "B"}

NoUser == ""

Sessions == {"s1", "s2"}

NoSession == ""

Conns == {"c1", "c2", "c3"}

ElementIds == {"e1", "e2"}

\* A token is absent, present and failing verification, or present and
\* verifying to a decoded payload with a userId claim.
NoToken == [kind |-> "none", userId |-> NoUser]

BadToken == [kind |-> "invalid", userId |-> NoUser]

GoodToken(u) == [kind |-> "valid", userId |-> u]

\* An element payload as the handlers read it: the three validated fields
\* and v, which stands for all the remaining content (geometry, colour, text).
Element(id, type, userId, v) ==
    [null |-> FALSE, id |-> id, type |-> type, userId |-> userId, v |-> v]

\* The payload null / undefined.
NullElement == [null |-> TRUE, id |-> "", type |-> "", userId |-> NoUser, v |-> 0]

VARIABLES
    conn,                \* per connection: lifecycle state and the values bound at connect
    sessions,            \* sessionId -> sequence of elements (the Session Snapshot)
    activeUsers,         \* sessionId -> set of user ids (the Active Set)
    sessionParticipants, \* sessionId -> set of user ids (the Participant Set)
    rateLimits,          \* userId -> [count, resetTime]
    now,                 \* Date.now()
    pending,             \* connections whose disconnect handler is suspended at its await
    out,                 \* messages the last step emitted: [to, ev, ...payload]
    last,                \* the last step: event name, connection and what became of it
    hist,                \* history variables the properties are stated over
    net                  \* the transports and the clients at their other ends

serverVars == <<sessions, activeUsers, sessionParticipants>>

vars == <<conn, sessions, activeUsers, sessionParticipants, rateLimits, now,
          pending, out, last, hist, net>>

(***************************************************************************)
(* Connections and rooms                                                   *)
(***************************************************************************)

\* A connection that has not been opened yet, or whose teardown is complete.
IdleConn == [st |-> "idle", sessionId |-> NoSession, userId |-> NoUser,
             queryUserId |-> NoUser, authenticated |-> FALSE]

ClosedConn == [IdleConn EXCEPT !.st = "closed"]

\* The sockets socket.io holds in room `room`: connections join the room
\* named by their sessionId at connect and leave every room before the
\* disconnect handler runs.
Room(room) ==
    IF room = NoSession THEN {}
    ELSE {c \in Conns : conn[c].st = "open" /\ conn[c].sessionId = room}

\* One outbound message.  Every message carries every payload field so that
\* messages of different events stay comparable; an event leaves the fields
\* it does not use at their defaults.
Msg(to, ev) ==
    [to |-> to, ev |-> ev, elem |-> NullElement, id |-> "", elems |-> <<>>,
     userId |-> NoUser, status |-> "", users |-> {}]

\* Faulty variant of ToSocket: the message goes to every socket.
ToSocket_Everyone(c, m) == {[m EXCEPT !.to = d] : d \in Conns}

\* socket.emit(ev, ...): to the socket itself.
ToSocket(c, m) == {[m EXCEPT !.to = c]}

\* Faulty variant of ToRoom: one socket of the room is left out.
ToRoom_ButOne(room, m) ==
    {[m EXCEPT !.to = c] : c \in Room(room) \ {CHOOSE d \in Room(room) : TRUE}}

\* io.to(room).emit(ev, ...): one message per socket in the room.
ToRoom(room, m) == {[m EXCEPT !.to = c] : c \in Room(room)}

\* Faulty variant of ToOthers: the sender receives the message too.
ToOthers_WithSender(c, room, m) == {[m EXCEPT !.to = d] : d \in Room(room)}

\* socket.to(room).emit(ev, ...): the room except the sending socket.
ToOthers(c, room, m) == {[m EXCEPT !.to = d] : d \in Room(room) \ {c}}

(***************************************************************************)
(* verifyToken and the authentication middleware                           *)
(***************************************************************************)

\* verifyToken: the decoded payload's userId when the token verifies; the
\* middleware sets socket.user only in that case.
verifyToken(token) == IF token.kind = "valid" THEN token.userId ELSE NoUser

\* Faulty variant of BoundUserId: the handshake's userId comes first.
BoundUserId_QueryFirst(token, queryUserId) ==
    IF queryUserId # NoUser THEN queryUserId ELSE verifyToken(token)

\* socket.userId = socket.user?.userId || userId
BoundUserId(token, queryUserId) ==
    IF verifyToken(token) # NoUser THEN verifyToken(token) ELSE queryUserId

Authenticated(token) == token.kind = "valid"

(***************************************************************************)
(* checkRateLimit                                                          *)
(***************************************************************************)

\* The value checkRateLimit(userId) returns in the current state.
checkRateLimit(userId) ==
    IF userId \notin DOMAIN rateLimits \/ now > rateLimits[userId].resetTime
    THEN TRUE
    ELSE rateLimits[userId].count < RATE_LIMIT_MAX

\* rateLimits after the call checkRateLimit(userId).
RateLimitsAfter(userId) ==
    IF userId \notin DOMAIN rateLimits \/ now > rateLimits[userId].resetTime
    THEN [k \in DOMAIN rateLimits \cup {userId} |->
            IF k = userId
            THEN [count |-> 1, resetTime |-> now + RATE_LIMIT_WINDOW]
            ELSE rateLimits[k]]
    ELSE IF rateLimits[userId].count >= RATE_LIMIT_MAX
    THEN rateLimits
    ELSE [rateLimits EXCEPT ![userId].count = @ + 1]

(***************************************************************************)
(* Records of what a step did                                              *)
(***************************************************************************)

\* The description of a step kept in `last`.  res is what became of the
\* event: "ignored" (the handler returned before the rate limiter),
\* "dropped" (checkRateLimit returned false), "rejected" (validation or the
\* ownership check failed), "noop" (nothing matched), "threw" (the handler
\* raised a TypeError) or "applied".  shape is what the event carried as
\* the argument a handler destructures: an "object" with the fields the
\* handler dereferences, a "partial" object or "none".  token is the
\* handshake's token, for a connection.
Last(ev, c, res) ==
    [ev |-> ev, conn |-> c, res |-> res, elem |-> NullElement, id |-> "",
     userId |-> NoUser, sid |-> NoSession, shape |-> "object",
     token |-> NoToken]

\* The ids of a snapshot's elements, in order.
Ids(elems) == [i \in 1..Len(elems) |-> elems[i].id]

IdSet(elems) == {elems[i].id : i \in 1..Len(elems)}

\* Faulty variant of WithoutId: only the first element of that id goes.
WithoutId_FirstOnly(elems, elementId) ==
    LET first == {i \in 1..Len(elems) :
                     /\ elems[i].id = elementId
                     /\ \A j \in 1..(i - 1) : elems[j].id # elementId}
    IN  [i \in 1..(Len(elems) - Cardinality(first)) |->
            IF \E k \in first : k <= i THEN elems[i + 1] ELSE elems[i]]

\* Faulty variant of WithoutId: the snapshot is emptied.
WithoutId_All(elems, elementId) == <<>>

\* sessions[sessionId].filter((el) => el.id !== elementId)
WithoutId(elems, elementId) == SelectSeq(elems, LAMBDA el : el.id # elementId)

\* Faulty variant of WithoutUser: only the user's last element goes.
WithoutUser_LastOnly(elems, targetUserId) ==
    LET mine == {i \in 1..Len(elems) : elems[i].userId = targetUserId}
    IN  IF mine = {} THEN elems
        ELSE LET k == CHOOSE i \in mine : \A j \in mine : j <= i
             IN  [i \in 1..(Len(elems) - 1) |->
                    IF i < k THEN elems[i] ELSE elems[i + 1]]

\* sessions[sessionId].filter((s) => s.userId !== targetUserId)
WithoutUser(elems, targetUserId) ==
    SelectSeq(elems, LAMBDA el : el.userId # targetUserId)

\* Faulty variant of FindIndex: a miss on a non-empty array yields index 1.
FindIndex_NeverMisses(elems, id) ==
    IF \E i \in 1..Len(elems) : elems[i].id = id
    THEN CHOOSE i \in 1..Len(elems) :
            /\ elems[i].id = id
            /\ \A j \in 1..(i - 1) : elems[j].id # id
    ELSE IF Len(elems) > 0 THEN 1 ELSE 0

\* Array.prototype.findIndex for el.id === id: the first match, 0 for -1.
FindIndex(elems, id) ==
    IF \E i \in 1..Len(elems) : elems[i].id = id
    THEN CHOOSE i \in 1..Len(elems) :
            /\ elems[i].id = id
            /\ \A j \in 1..(i - 1) : elems[j].id # id
    ELSE 0

\* Faulty variant of LastIndexByUser: a forward scan, the first index.
LastIndexByUser_FromHead(elems, userId) ==
    IF \E i \in 1..Len(elems) : elems[i].userId = userId
    THEN CHOOSE i \in 1..Len(elems) :
            /\ elems[i].userId = userId
            /\ \A j \in 1..(i - 1) : elems[j].userId # userId
    ELSE 0

\* Faulty variant of LastIndexByUser: a miss yields the last index.
LastIndexByUser_AnyAuthor(elems, userId) ==
    IF \E i \in 1..Len(elems) : elems[i].userId = userId
    THEN CHOOSE i \in 1..Len(elems) :
            /\ elems[i].userId = userId
            /\ \A j \in (i + 1)..Len(elems) : elems[j].userId # userId
    ELSE Len(elems)

\* The backward scan of undo-element: the last index whose element is
\* authored by userId, 0 for -1.
LastIndexByUser(elems, userId) ==
    IF \E i \in 1..Len(elems) : elems[i].userId = userId
    THEN CHOOSE i \in 1..Len(elems) :
            /\ elems[i].userId = userId
            /\ \A j \in (i + 1)..Len(elems) : elems[j].userId # userId
    ELSE 0

\* Faulty variant of Replace: the element moves to the tail.
Replace_ToTail(elems, index, element) ==
    SelectSeq(elems, LAMBDA el : el.id # element.id) \o <<element>>

\* Faulty variant of Replace: a stored element with a higher version stays.
Replace_UnlessNewer(elems, index, element) ==
    IF elems[index].v > element.v THEN elems
    ELSE [elems EXCEPT ![index] = element]

\* sessions[sessionId][index] = element
Replace(elems, index, element) == [elems EXCEPT ![index] = element]

\* Array.prototype.splice(index, 1)
Splice(elems, index) ==
    [i \in 1..(Len(elems) - 1) |-> IF i < index THEN elems[i] ELSE elems[i + 1]]

\* Faulty variant of Malformed: the authoring user is not looked at.
Malformed_UserUnchecked(element) ==
    element.null \/ element.id = "" \/ element.type = ""

\* Faulty variant of Malformed: the type is not looked at.
Malformed_TypeUnchecked(element) ==
    element.null \/ element.id = "" \/ element.userId = NoUser

\* !element || !element.id || !element.type || !element.userId
Malformed(element) ==
    element.null \/ element.id = "" \/ element.type = "" \/ element.userId = NoUser

\* Faulty variant of Mismatch: every target passes for the sender's own.
Mismatch_Never(targetUserId, userId) == FALSE

\* targetUserId !== userId, the ownership check of undo-element and
\* clear-user-elements.
Mismatch(targetUserId, userId) == targetUserId # userId

\* Faulty variant of Put: a key that is present keeps its value.
Put_OnlyFresh(f, key, value) ==
    [k \in DOMAIN f \cup {key} |-> IF k \in DOMAIN f THEN f[k] ELSE value]

\* obj[key] = value on an object modelled as a function.
Put(f, key, value) ==
    [k \in DOMAIN f \cup {key} |-> IF k = key THEN value ELSE f[k]]

\* Faulty variant of Delete: the key stays.
Delete_Keeps(f, key) == f

\* delete obj[key]
Delete(f, key) == [k \in DOMAIN f \ {key} |-> f[k]]

(***************************************************************************)
(* History variables.  hist is computed from the step just taken: HistNext *)
(* reads last' (which every action fixes before it) and the state the step *)
(* started in.  Nothing the server does reads hist.                        *)
(*                                                                         *)
(*   adds[s]  while only add-element events, their well-formed payloads    *)
(*            with pairwise distinct ids, have been sent to session s      *)
(*            since its snapshot was created: the well-formed payloads     *)
(*            sent, those of them the rate limiter let through, and the    *)
(*            connections that sent them                                   *)
(*   run      the current run of consecutive undo-element(u) events sent   *)
(*            by connections bound to u in one session: how many were      *)
(*            sent, how many the limiter let through, and the snapshot     *)
(*            the run started from                                         *)
(*   tomb     the id of the last applied delete-element and the authors of *)
(*            the elements it removed, while only update-element events    *)
(*            have followed it                                             *)
(*   others   the connections whose disconnect handler is suspended and    *)
(*            that left another open connection of their user behind in    *)
(*            their session                                                *)
(*   pres[s][u]  the current presence episode of user u in session s: it   *)
(*            starts when a connection bound to u opens on s while none is *)
(*            open or closing; offline counts the offline broadcasts for u *)
(*            since then; raced says that a connection of u opened while   *)
(*            the disconnect handler of u's last open one was suspended;   *)
(*            impostor says that a connection of u closed while a socket   *)
(*            bound to another identity, its handshake query naming u, was *)
(*            in the room                                                  *)
(*   win[u]   the rate-limit window of user u: the time its first event    *)
(*            arrived, the events u's connections have sent in it that     *)
(*            reached the limiter, and those that were let through         *)
(*   ended[s] whether session s has been ended and no connection has       *)
(*            opened on it since; the snapshot the end discarded; whether  *)
(*            a join-session has been applied on s since the end           *)
(*   upd      when the last two steps were applied update-element events   *)
(*            for one id in one session: the connection and the payload of *)
(*            the earlier one                                              *)
(*   cd[s]    while only add-element and delete-element events have been   *)
(*            processed on session s since its snapshot was created, none  *)
(*            dropped by the limiter: for each connection, the adds that   *)
(*            were applied and the deletes, in the order it sent them;     *)
(*            kept only where track is set, which no step changes          *)
(*   member   whether the user named by the join-session or kick-user      *)
(*            just applied was in both sets of the session before it       *)
(*   solo     per user u, the limiter's map as it is in the run that has   *)
(*            the same clock and the same events of the connections bound  *)
(*            to u and no event of any other connection; kept only where   *)
(*            solo.on is set, which no step changes                        *)
(*   joined   the open connections that have had a join-session naming     *)
(*            their own bound identity applied, on a session that has not  *)
(*            been ended since; kept only where track is set               *)
(***************************************************************************)

NoAdds == [only |-> FALSE, sent |-> {}, passed |-> {}, from |-> {}]

FreshAdds == [NoAdds EXCEPT !.only = TRUE]

NoRun == [n |-> 0, ok |-> 0, sid |-> NoSession, user |-> NoUser, base |-> <<>>]

NoTomb == [sid |-> NoSession, id |-> "", authors |-> {}]

NoCd == [on |-> FALSE, seqs |-> [c \in Conns |-> <<>>]]

FreshCd == [NoCd EXCEPT !.on = TRUE]

NoUpd == [conn |-> "", elem |-> NullElement]

NoEnded == [is |-> FALSE, snap |-> <<>>, joined |-> FALSE]

NoEpisode == [live |-> FALSE, offline |-> 0, raced |-> FALSE, impostor |-> FALSE]

\* Every user's window was opened at time 0 and RATE_LIMIT_MAX - Headroom
\* events have been sent and let through in it (see InitServer).
\* The limiter's map the model starts with.
StartLimits ==
    [u \in Users \cup {NoUser} |->
        [count |-> RATE_LIMIT_MAX - Headroom, resetTime |-> RATE_LIMIT_WINDOW]]

NoSolo == [on |-> FALSE, lim |-> [u \in Users |-> StartLimits]]

HistInit ==
    [adds |-> [s \in Sessions |-> NoAdds], run |-> NoRun, tomb |-> NoTomb,
     others |-> {},
     pres |-> [s \in Sessions |-> [u \in Users |-> NoEpisode]],
     win |-> [u \in Users |->
                [start |-> 0, sent |-> RATE_LIMIT_MAX - Headroom,
                 passed |-> RATE_LIMIT_MAX - Headroom]],
     ended |-> [s \in Sessions |-> NoEnded],
     member |-> FALSE,
     upd |-> NoUpd,
     cd |-> [s \in Sessions |-> NoCd],
     joined |-> {},
     track |-> FALSE,
     solo |-> NoSolo]

ElementEvents ==
    {"update-element", "undo-element", "delete-element", "clear-user-elements"}

\* An element that carries an id, a type and an authoring user.
WellFormed(e) == ~e.null /\ e.id # "" /\ e.type # "" /\ e.userId # NoUser

AddsNext(s) ==
    LET e == last'
        a == hist.adds[s]
    IN  IF e.ev = "connection" /\ e.sid = s /\ s \notin DOMAIN sessions
        THEN FreshAdds
        ELSE IF s \notin DOMAIN sessions'
        THEN NoAdds
        ELSE IF e.sid = s /\ e.ev \in ElementEvents
        THEN NoAdds
        ELSE IF e.ev = "add-element" /\ e.sid = s /\ a.only /\ WellFormed(e.elem)
        THEN IF e.elem.id \in {x.id : x \in a.sent}
             THEN NoAdds
             ELSE [only |-> TRUE,
                   sent |-> a.sent \cup {e.elem},
                   passed |-> IF e.res = "dropped" THEN a.passed
                              ELSE a.passed \cup {e.elem},
                   from |-> a.from \cup {e.conn}]
        ELSE a

Min(a, b) == IF a < b THEN a ELSE b

\* The run's counters stop at RunCap: a snapshot holds at most MaxElems
\* elements, so every count above MaxElems removes the same elements.
RunCap == MaxElems + 1

RunNext ==
    LET e == last'
        r == hist.run
        ok == IF e.res = "dropped" THEN 0 ELSE 1
    IN  IF /\ e.ev = "undo-element"
           /\ e.res # "ignored"
           /\ e.userId = conn[e.conn].userId
        THEN IF r.n > 0 /\ r.sid = e.sid /\ r.user = e.userId
             THEN [r EXCEPT !.n = Min(@ + 1, RunCap), !.ok = Min(@ + ok, RunCap)]
             ELSE [n |-> 1, ok |-> ok, sid |-> e.sid, user |-> e.userId,
                   base |-> sessions[e.sid]]
        ELSE NoRun

TombNext ==
    LET e == last'
    IN  IF e.ev = "delete-element" /\ e.res = "applied"
        THEN [sid |-> e.sid, id |-> e.id,
              authors |-> {x.userId : x \in {sessions[e.sid][i] : i \in
                              {j \in 1..Len(sessions[e.sid]) :
                                  sessions[e.sid][j].id = e.id}}}]
        ELSE IF e.ev = "update-element" /\ e.sid \in DOMAIN sessions
        THEN hist.tomb
        ELSE NoTomb

\* The connections bound to user u on session s that are in state st.
ConnsOf(s, u, st) ==
    {c \in Conns : conn[c].st = st /\ conn[c].sessionId = s /\ conn[c].userId = u}

OthersNext ==
    LET e == last'
    IN  IF e.ev = "disconnect" /\ e.res = "suspended"
        THEN IF ConnsOf(e.sid, e.userId, "open") \ {e.conn} # {}
             THEN hist.others \cup {e.conn}
             ELSE hist.others
        ELSE IF e.ev = "disconnect-resumed"
        THEN hist.others \ {e.conn}
        ELSE hist.others

PresNext(s, u) ==
    LET e == last'
        p == hist.pres[s][u]
    IN  IF e.ev = "connection" /\ e.sid = s /\ e.userId = u
        THEN IF ConnsOf(s, u, "open") # {}
             THEN p
             ELSE IF ConnsOf(s, u, "closing") # {}
             THEN [p EXCEPT !.raced = TRUE]
             ELSE [NoEpisode EXCEPT !.live = TRUE]
        ELSE IF /\ e.ev = "disconnect"
                /\ e.sid = s /\ e.userId = u
                /\ \E c \in Room(s) \ {e.conn} :
                      conn[c].queryUserId = u /\ conn[c].userId # u
        THEN [p EXCEPT !.impostor = TRUE]
        ELSE IF /\ e.ev = "disconnect-resumed"
                /\ e.sid = s /\ e.userId = u
                /\ e.res = "applied"
        THEN [p EXCEPT !.offline = Min(@ + 1, 2)]
        ELSE p

\* The events that come from a connection and can reach the rate limiter.
ClientEvents ==
    {"join-session", "cursor-move", "add-element", "update-element",
     "undo-element", "delete-element", "clear-user-elements", "session-ended",
     "kick-user", "user-left", "send-invite", "send-friend-request",
     "accept-friend-request", "remove-friend"}

\* The event reached the call of checkRateLimit.
ReachedLimiter(e) ==
    e.ev \in ClientEvents /\ e.res # "ignored" /\ e.shape # "none"

\* The key the handler of the event passes to checkRateLimit: the id in the
\* payload for join-session, the identity bound to the socket for the rest.
LimiterKey(e) ==
    IF e.ev = "join-session" THEN e.userId ELSE conn[e.conn].userId

\* checkRateLimit(userId) on the map limits: its result and the map after.
PassesIn(limits, userId) ==
    IF userId \notin DOMAIN limits \/ now > limits[userId].resetTime
    THEN TRUE
    ELSE limits[userId].count < RATE_LIMIT_MAX

LimitsAfter(limits, userId) ==
    IF userId \notin DOMAIN limits \/ now > limits[userId].resetTime
    THEN [k \in DOMAIN limits \cup {userId} |->
            IF k = userId
            THEN [count |-> 1, resetTime |-> now + RATE_LIMIT_WINDOW]
            ELSE limits[k]]
    ELSE IF limits[userId].count >= RATE_LIMIT_MAX
    THEN limits
    ELSE [limits EXCEPT ![userId].count = @ + 1]

SoloNext(u) ==
    LET e == last'
    IN  IF hist.solo.on /\ ReachedLimiter(e) /\ conn[e.conn].userId = u
        THEN LimitsAfter(hist.solo.lim[u], LimiterKey(e))
        ELSE hist.solo.lim[u]

\* The counters stop one above the cap.
WinNext(u) ==
    LET e == last'
        w == hist.win[u]
        ok == IF e.res = "dropped" THEN 0 ELSE 1
    IN  IF /\ e.ev \in ClientEvents
           /\ e.res # "ignored"
           /\ e.shape # "none"
           /\ conn[e.conn].userId = u
        THEN IF now > w.start + RATE_LIMIT_WINDOW
             THEN [start |-> now, sent |-> 1, passed |-> ok]
             ELSE [w EXCEPT !.sent = Min(@ + 1, RATE_LIMIT_MAX + 1),
                            !.passed = Min(@ + ok, RATE_LIMIT_MAX + 1)]
        ELSE w

EndedNext(s) ==
    LET e == last'
        n == hist.ended[s]
    IN  IF e.ev = "session-ended" /\ e.res = "applied" /\ e.sid = s
        THEN [is |-> TRUE,
              snap |-> IF s \in DOMAIN sessions THEN sessions[s] ELSE <<>>,
              joined |-> FALSE]
        ELSE IF e.ev = "connection" /\ e.sid = s
        THEN NoEnded
        ELSE IF e.ev = "join-session" /\ e.res = "applied" /\ e.sid = s /\ n.is
        THEN [n EXCEPT !.joined = TRUE]
        ELSE n

MemberNext ==
    LET e == last'
    IN  /\ e.ev \in {"join-session", "kick-user"}
        /\ e.res = "applied"
        /\ e.sid \in DOMAIN activeUsers
        /\ e.sid \in DOMAIN sessionParticipants
        /\ e.userId \in activeUsers[e.sid]
        /\ e.userId \in sessionParticipants[e.sid]

UpdNext ==
    LET e == last'
    IN  IF /\ e.ev = "update-element" /\ e.res = "applied"
           /\ last.ev = "update-element" /\ last.res = "applied"
           /\ last.sid = e.sid /\ last.elem.id = e.elem.id
        THEN [conn |-> last.conn, elem |-> last.elem]
        ELSE NoUpd

CdNext(s) ==
    LET e == last'
        t == hist.cd[s]
    IN  IF ~hist.track
        THEN NoCd
        ELSE IF e.ev = "connection" /\ e.sid = s /\ s \notin DOMAIN sessions
        THEN FreshCd
        ELSE IF s \notin DOMAIN sessions'
        THEN NoCd
        ELSE IF ~t.on \/ e.sid # s \/ e.ev \notin {"add-element"} \cup ElementEvents
        THEN t
        ELSE IF e.ev = "add-element" /\ e.res = "applied"
        THEN [t EXCEPT !.seqs[e.conn] = Append(@, [k |-> "add", id |-> e.elem.id])]
        ELSE IF e.ev = "add-element" /\ e.res = "rejected"
        THEN t
        ELSE IF e.ev = "delete-element" /\ e.res \in {"applied", "noop"}
        THEN [t EXCEPT !.seqs[e.conn] = Append(@, [k |-> "del", id |-> e.id])]
        ELSE NoCd

JoinedNext ==
    LET e == last'
    IN  IF ~hist.track
        THEN {}
        ELSE IF /\ e.ev = "join-session" /\ e.res = "applied"
                /\ e.userId = conn[e.conn].userId
        THEN hist.joined \cup {e.conn}
        ELSE IF e.ev = "disconnect"
        THEN hist.joined \ {e.conn}
        ELSE IF e.ev = "session-ended" /\ e.res = "applied"
        THEN {c \in hist.joined : conn[c].sessionId # e.sid}
        ELSE hist.joined

HistNext ==
    [adds |-> [s \in Sessions |-> AddsNext(s)], run |-> RunNext, tomb |-> TombNext,
     others |-> OthersNext,
     pres |-> [s \in Sessions |-> [u \in Users |-> PresNext(s, u)]],
     win |-> [u \in Users |-> WinNext(u)],
     ended |-> [s \in Sessions |-> EndedNext(s)],
     member |-> MemberNext,
     upd |-> UpdNext,
     cd |-> [s \in Sessions |-> CdNext(s)],
     joined |-> JoinedNext,
     track |-> hist.track,
     solo |-> [hist.solo EXCEPT !.lim = [u \in Users |-> SoloNext(u)]]]

(***************************************************************************)
(* The transports.  net is switched on in the specifications that model    *)
(* the clients; elsewhere it stays as it starts.  Where it is on, up[c]    *)
(* holds the events client c has emitted and the server has not handled    *)
(* yet, down[c] the messages the server has emitted to socket c and the    *)
(* client has not handled yet, both in order, and client[c] the state of   *)
(* the client's whiteboard component.  A socket that disconnects loses     *)
(* both queues, and its client is gone.                                    *)
(*                                                                         *)
(*   impl   which of the repository's two clients runs: "hooks", the       *)
(*          component built on useWhiteboardSocket and useDrawingTools, or *)
(*          "component", the handlers of components/Whiteboard.tsx         *)
(*   ids    how many element ids the clients have generated                *)
(*   lost   whether the server has dropped, rejected or ignored an event   *)
(*          that a client emitted                                          *)
(*   early  the clients that have emitted an event before handling their   *)
(*          init-elements                                                  *)
(*   shown  per client, the sockets whose cursor it has ever shown         *)
(***************************************************************************)

\* useState initial values: no elements, nothing being drawn, no cursors.
\* synced records that init-elements has been handled.
NoClient ==
    [elements |-> <<>>, currentElement |-> NullElement, cursors |-> {},
     synced |-> FALSE]

NoNet ==
    [on |-> FALSE, impl |-> "hooks",
     up |-> [c \in Conns |-> <<>>],
     down |-> [c \in Conns |-> <<>>],
     client |-> [c \in Conns |-> NoClient],
     ids |-> 0, lost |-> FALSE, early |-> {},
     shown |-> [c \in Conns |-> {}]]

\* The messages of a set, one after the other.
RECURSIVE SeqOf(_)
SeqOf(S) ==
    IF S = {} THEN <<>>
    ELSE LET m == CHOOSE x \in S : TRUE IN <<m>> \o SeqOf(S \ {m})

\* What a step of the server does to the transports: the event it handled
\* leaves the sender's queue and the messages it emitted join the queues
\* of their sockets.
NetNext ==
    LET e == last'
        handled(c) == e.ev \in ClientEvents /\ e.conn = c
    IN  IF ~net.on THEN net
        ELSE [net EXCEPT
                !.up = [c \in Conns |->
                          IF conn'[c].st # "open" THEN <<>>
                          ELSE IF handled(c) THEN Tail(net.up[c])
                          ELSE net.up[c]],
                !.down = [c \in Conns |->
                            IF conn'[c].st # "open" THEN <<>>
                            ELSE net.down[c] \o SeqOf({m \in out' : m.to = c})],
                !.client = [c \in Conns |->
                              IF conn'[c].st # "open" THEN NoClient
                              ELSE net.client[c]],
                !.early = {c \in @ : conn'[c].st = "open"},
                !.lost = @ \/ (e.ev \in ClientEvents
                                 /\ e.res \in {"dropped", "rejected", "ignored"})]

(***************************************************************************)
(* io.on("connection")                                                     *)
(***************************************************************************)

\* Faulty variant of Ensure: every connection starts the snapshot afresh.
Ensure_Fresh(sessionId) == <<>>

\* if (!sessions[sessionId]) sessions[sessionId] = []: the snapshot the
\* session has after it, the one it had or an empty one.
Ensure(sessionId) ==
    IF sessionId \in DOMAIN sessions THEN sessions[sessionId] ELSE <<>>

\* A client opens connection c with the handshake query (sessionId, userId,
\* token).  The middleware binds the identity, the connection handler joins
\* the rooms, creates the session's snapshot and participant set when they
\* are absent and sends init-elements to the new socket.
Connect(c, sessionId, queryUserId, token) ==
    LET userId == BoundUserId(token, queryUserId)
        snapshot == Ensure(sessionId)
        participants == IF sessionId \in DOMAIN sessionParticipants
                        THEN sessionParticipants[sessionId] ELSE {}
    IN  /\ conn[c].st = "idle"
        /\ conn' = [conn EXCEPT ![c] =
                      [st |-> "open", sessionId |-> sessionId, userId |-> userId,
                       queryUserId |-> queryUserId,
                       authenticated |-> Authenticated(token)]]
        /\ IF sessionId # NoSession
           THEN /\ sessions' = Put(sessions, sessionId, snapshot)
                /\ sessionParticipants' =
                      Put(sessionParticipants, sessionId,
                          IF userId # NoUser THEN participants \cup {userId}
                          ELSE participants)
                /\ out' = ToSocket(c, [Msg(c, "init-elements") EXCEPT !.elems = snapshot])
           ELSE /\ UNCHANGED <<sessions, sessionParticipants>>
                /\ out' = {}
        /\ last' = [Last("connection", c, "applied") EXCEPT !.sid = sessionId,
                                                             !.userId = userId,
                                                             !.token = token]
        /\ UNCHANGED <<activeUsers, rateLimits, now, pending>>
        /\ hist' = HistNext
        /\ net' = NetNext

(***************************************************************************)
(* socket.on("add-element")                                                *)
(***************************************************************************)

AddElement(c, element) ==
    LET sessionId == conn[c].sessionId
        userId == conn[c].userId
        l == [Last("add-element", c, "applied") EXCEPT !.elem = element,
                                                       !.sid = sessionId]
    IN  /\ conn[c].st = "open"
        \* the model's bound on the snapshot's length
        /\ sessionId \in DOMAIN sessions => Len(sessions[sessionId]) < MaxElems
        /\ UNCHANGED <<conn, now, pending, activeUsers, sessionParticipants>>
        /\ IF sessionId = NoSession \/ sessionId \notin DOMAIN sessions
           THEN /\ UNCHANGED <<sessions, rateLimits>>
                /\ out' = {}
                /\ last' = [l EXCEPT !.res = "ignored"]
           ELSE /\ rateLimits' = RateLimitsAfter(userId)
                /\ IF ~checkRateLimit(userId)
                   THEN /\ UNCHANGED sessions
                        /\ out' = {}
                        /\ last' = [l EXCEPT !.res = "dropped"]
                   ELSE IF Malformed(element)
                   THEN /\ UNCHANGED sessions
                        /\ out' = {}
                        /\ last' = [l EXCEPT !.res = "rejected"]
                   ELSE /\ sessions' = [sessions EXCEPT ![sessionId] = Append(@, element)]
                        /\ out' = ToOthers(c, sessionId,
                                     [Msg(c, "element-added") EXCEPT !.elem = element])
                        /\ last' = l
        /\ hist' = HistNext
        /\ net' = NetNext

(***************************************************************************)
(* socket.on("update-element")                                             *)
(***************************************************************************)

UpdateElement(c, element) ==
    LET sessionId == conn[c].sessionId
        userId == conn[c].userId
        index == FindIndex(sessions[sessionId], element.id)
        l == [Last("update-element", c, "applied") EXCEPT !.elem = element,
                                                          !.sid = sessionId]
    IN  /\ conn[c].st = "open"
        /\ UNCHANGED <<conn, now, pending, activeUsers, sessionParticipants>>
        /\ IF sessionId = NoSession \/ sessionId \notin DOMAIN sessions
           THEN /\ UNCHANGED <<sessions, rateLimits>>
                /\ out' = {}
                /\ last' = [l EXCEPT !.res = "ignored"]
           ELSE /\ rateLimits' = RateLimitsAfter(userId)
                /\ IF ~checkRateLimit(userId)
                   THEN /\ UNCHANGED sessions
                        /\ out' = {}
                        /\ last' = [l EXCEPT !.res = "dropped"]
                   ELSE IF element.null \/ element.id = ""
                   THEN /\ UNCHANGED sessions
                        /\ out' = {}
                        /\ last' = [l EXCEPT !.res = "rejected"]
                   ELSE IF index = 0
                   THEN /\ UNCHANGED sessions
                        /\ out' = {}
                        /\ last' = [l EXCEPT !.res = "noop"]
                   ELSE /\ sessions' = [sessions EXCEPT
                                          ![sessionId] = Replace(@, index, element)]
                        /\ out' = ToOthers(c, sessionId,
                                     [Msg(c, "element-updated") EXCEPT !.elem = element])
                        /\ last' = l
        /\ hist' = HistNext
        /\ net' = NetNext

(***************************************************************************)
(* socket.on("undo-element")                                               *)
(***************************************************************************)

UndoElement(c, targetUserId) ==
    LET sessionId == conn[c].sessionId
        userId == conn[c].userId
        index == LastIndexByUser(sessions[sessionId], targetUserId)
        l == [Last("undo-element", c, "applied") EXCEPT !.userId = targetUserId,
                                                        !.sid = sessionId]
    IN  /\ conn[c].st = "open"
        /\ UNCHANGED <<conn, now, pending, activeUsers, sessionParticipants>>
        /\ IF sessionId = NoSession \/ sessionId \notin DOMAIN sessions
           THEN /\ UNCHANGED <<sessions, rateLimits>>
                /\ out' = {}
                /\ last' = [l EXCEPT !.res = "ignored"]
           ELSE /\ rateLimits' = RateLimitsAfter(userId)
                /\ IF ~checkRateLimit(userId)
                   THEN /\ UNCHANGED sessions
                        /\ out' = {}
                        /\ last' = [l EXCEPT !.res = "dropped"]
                   ELSE IF Mismatch(targetUserId, userId)
                   THEN /\ UNCHANGED sessions
                        /\ out' = {}
                        /\ last' = [l EXCEPT !.res = "rejected"]
                   ELSE IF index = 0
                   THEN /\ UNCHANGED sessions
                        /\ out' = {}
                        /\ last' = [l EXCEPT !.res = "noop"]
                   ELSE /\ sessions' = [sessions EXCEPT ![sessionId] = Splice(@, index)]
                        \* the payload is the spliced array itself
                        /\ out' = ToRoom(sessionId,
                                     [Msg(c, "elements-update") EXCEPT
                                        !.elems = Splice(sessions[sessionId], index)])
                        /\ last' = l
        /\ hist' = HistNext
        /\ net' = NetNext

(***************************************************************************)
(* socket.on("delete-element")                                             *)
(***************************************************************************)

\* No ownership check and no found check: the filter and the broadcast run
\* for every elementId.
DeleteElement(c, elementId) ==
    LET sessionId == conn[c].sessionId
        userId == conn[c].userId
        found == \E i \in 1..Len(sessions[sessionId]) :
                     sessions[sessionId][i].id = elementId
        l == [Last("delete-element", c, "applied") EXCEPT !.id = elementId,
                                                          !.sid = sessionId]
    IN  /\ conn[c].st = "open"
        /\ UNCHANGED <<conn, now, pending, activeUsers, sessionParticipants>>
        /\ IF sessionId = NoSession \/ sessionId \notin DOMAIN sessions
           THEN /\ UNCHANGED <<sessions, rateLimits>>
                /\ out' = {}
                /\ last' = [l EXCEPT !.res = "ignored"]
           ELSE /\ rateLimits' = RateLimitsAfter(userId)
                /\ IF ~checkRateLimit(userId)
                   THEN /\ UNCHANGED sessions
                        /\ out' = {}
                        /\ last' = [l EXCEPT !.res = "dropped"]
                   ELSE /\ sessions' = [sessions EXCEPT
                                          ![sessionId] = WithoutId(@, elementId)]
                        /\ out' = ToRoom(sessionId,
                                     [Msg(c, "element-deleted") EXCEPT !.id = elementId])
                        /\ last' = [l EXCEPT !.res = IF found THEN "applied" ELSE "noop"]
        /\ hist' = HistNext
        /\ net' = NetNext

(***************************************************************************)
(* socket.on("clear-user-elements")                                        *)
(***************************************************************************)

ClearUserElements(c, targetUserId) ==
    LET sessionId == conn[c].sessionId
        userId == conn[c].userId
        kept == WithoutUser(sessions[sessionId], targetUserId)
        l == [Last("clear-user-elements", c, "applied") EXCEPT
                 !.userId = targetUserId, !.sid = sessionId]
    IN  /\ conn[c].st = "open"
        /\ UNCHANGED <<conn, now, pending, activeUsers, sessionParticipants>>
        /\ IF sessionId = NoSession \/ sessionId \notin DOMAIN sessions
           THEN /\ UNCHANGED <<sessions, rateLimits>>
                /\ out' = {}
                /\ last' = [l EXCEPT !.res = "ignored"]
           ELSE /\ rateLimits' = RateLimitsAfter(userId)
                /\ IF ~checkRateLimit(userId)
                   THEN /\ UNCHANGED sessions
                        /\ out' = {}
                        /\ last' = [l EXCEPT !.res = "dropped"]
                   ELSE IF Mismatch(targetUserId, userId)
                   THEN /\ UNCHANGED sessions
                        /\ out' = {}
                        /\ last' = [l EXCEPT !.res = "rejected"]
                   ELSE /\ sessions' = [sessions EXCEPT ![sessionId] = kept]
                        /\ IF Len(kept) # Len(sessions[sessionId])
                           THEN /\ out' = ToRoom(sessionId,
                                            [Msg(c, "elements-update") EXCEPT
                                               !.elems = kept])
                                /\ last' = l
                           ELSE /\ out' = {}
                                /\ last' = [l EXCEPT !.res = "noop"]
        /\ hist' = HistNext
        /\ net' = NetNext

(***************************************************************************)
(* socket.on("join-session")                                               *)
(***************************************************************************)

\* The `user` field of a join-session payload: null, or an object whose id
\* may be missing.
NullUserPayload == [null |-> TRUE, id |-> NoUser]

UserPayload(id) == [null |-> FALSE, id |-> id]

\* The limiter is asked about the payload's user.id, not about the identity
\* bound to the socket.
JoinSession(c, user) ==
    LET sessionId == conn[c].sessionId
        active == (IF sessionId \in DOMAIN activeUsers
                   THEN activeUsers[sessionId] ELSE {}) \cup {user.id}
        participants == (IF sessionId \in DOMAIN sessionParticipants
                         THEN sessionParticipants[sessionId] ELSE {}) \cup {user.id}
        l == [Last("join-session", c, "applied") EXCEPT !.userId = user.id,
                                                        !.sid = sessionId]
    IN  /\ conn[c].st = "open"
        /\ UNCHANGED <<conn, now, pending, sessions>>
        /\ IF sessionId = NoSession \/ user.null
           THEN /\ UNCHANGED <<activeUsers, sessionParticipants, rateLimits>>
                /\ out' = {}
                /\ last' = [l EXCEPT !.res = "ignored"]
           ELSE /\ rateLimits' = RateLimitsAfter(user.id)
                /\ IF ~checkRateLimit(user.id)
                   THEN /\ UNCHANGED <<activeUsers, sessionParticipants>>
                        /\ out' = {}
                        /\ last' = [l EXCEPT !.res = "dropped"]
                   ELSE /\ activeUsers' = Put(activeUsers, sessionId, active)
                        /\ sessionParticipants' =
                              Put(sessionParticipants, sessionId, participants)
                        /\ out' =
                              ToOthers(c, sessionId,
                                 [Msg(c, "user-joined") EXCEPT !.userId = user.id])
                              \cup ToOthers(c, sessionId,
                                 [Msg(c, "user-status-change") EXCEPT
                                    !.userId = user.id, !.status = "online"])
                              \cup ToSocket(c, [Msg(c, "active-users") EXCEPT
                                                   !.users = active])
                        /\ last' = l
        /\ hist' = HistNext
        /\ net' = NetNext

(***************************************************************************)
(* socket.on("cursor-move")                                                *)
(***************************************************************************)

CursorMove(c) ==
    LET sessionId == conn[c].sessionId
        userId == conn[c].userId
        l == [Last("cursor-move", c, "applied") EXCEPT !.sid = sessionId]
    IN  /\ conn[c].st = "open"
        /\ UNCHANGED <<conn, now, pending, serverVars>>
        /\ IF sessionId = NoSession
           THEN /\ UNCHANGED rateLimits
                /\ out' = {}
                /\ last' = [l EXCEPT !.res = "ignored"]
           ELSE /\ rateLimits' = RateLimitsAfter(userId)
                /\ IF ~checkRateLimit(userId)
                   THEN /\ out' = {}
                        /\ last' = [l EXCEPT !.res = "dropped"]
                   ELSE /\ out' = ToOthers(c, sessionId,
                                     [Msg(c, "cursor-update") EXCEPT !.id = c])
                        /\ last' = l
        /\ hist' = HistNext
        /\ net' = NetNext

(***************************************************************************)
(* socket.on("session-ended"), socket.on("kick-user"),                     *)
(* socket.on("user-left"): the session acted on is the payload's, not the  *)
(* one the socket is bound to.                                             *)
(***************************************************************************)

SessionEnded(c, endedSessionId) ==
    LET userId == conn[c].userId
        l == [Last("session-ended", c, "applied") EXCEPT !.sid = endedSessionId]
    IN  /\ conn[c].st = "open"
        /\ UNCHANGED <<conn, now, pending>>
        /\ IF endedSessionId = NoSession
           THEN /\ UNCHANGED <<serverVars, rateLimits>>
                /\ out' = {}
                /\ last' = [l EXCEPT !.res = "ignored"]
           ELSE /\ rateLimits' = RateLimitsAfter(userId)
                /\ IF ~checkRateLimit(userId)
                   THEN /\ UNCHANGED serverVars
                        /\ out' = {}
                        /\ last' = [l EXCEPT !.res = "dropped"]
                   ELSE /\ out' = ToOthers(c, endedSessionId, Msg(c, "session-ended"))
                        /\ sessions' = Delete(sessions, endedSessionId)
                        /\ activeUsers' = Delete(activeUsers, endedSessionId)
                        /\ sessionParticipants' =
                              Delete(sessionParticipants, endedSessionId)
                        /\ last' = l
        /\ hist' = HistNext
        /\ net' = NetNext

\* Faulty variant of SetDelete: only the Participant Set loses the user.
SetDelete_ParticipantsOnly(f, sessionId, userId) ==
    IF sessionId \in DOMAIN f /\ f = sessionParticipants
    THEN [f EXCEPT ![sessionId] = @ \ {userId}]
    ELSE f

\* Faulty variant of SetDelete: the set is left as it is.
SetDelete_Keeps(f, sessionId, userId) == f

\* set.delete(userId) on the set stored under sessionId, when there is one.
SetDelete(f, sessionId, userId) ==
    IF sessionId \in DOMAIN f
    THEN [f EXCEPT ![sessionId] = @ \ {userId}]
    ELSE f

KickUser(c, kickedUserId, targetSessionId) ==
    LET userId == conn[c].userId
        l == [Last("kick-user", c, "applied") EXCEPT !.userId = kickedUserId,
                                                     !.sid = targetSessionId]
    IN  /\ conn[c].st = "open"
        /\ UNCHANGED <<conn, now, pending, sessions>>
        /\ IF targetSessionId = NoSession \/ kickedUserId = NoUser
           THEN /\ UNCHANGED <<activeUsers, sessionParticipants, rateLimits>>
                /\ out' = {}
                /\ last' = [l EXCEPT !.res = "ignored"]
           ELSE /\ rateLimits' = RateLimitsAfter(userId)
                /\ IF ~checkRateLimit(userId)
                   THEN /\ UNCHANGED <<activeUsers, sessionParticipants>>
                        /\ out' = {}
                        /\ last' = [l EXCEPT !.res = "dropped"]
                   ELSE /\ sessionParticipants' =
                              SetDelete(sessionParticipants, targetSessionId, kickedUserId)
                        /\ activeUsers' =
                              SetDelete(activeUsers, targetSessionId, kickedUserId)
                        /\ out' = ToRoom(targetSessionId,
                                     [Msg(c, "user-kicked") EXCEPT !.userId = kickedUserId])
                        /\ last' = l
        /\ hist' = HistNext
        /\ net' = NetNext

UserLeft(c, leftUserId, leftSessionId) ==
    LET userId == conn[c].userId
        l == [Last("user-left", c, "applied") EXCEPT !.userId = leftUserId,
                                                     !.sid = leftSessionId]
    IN  /\ conn[c].st = "open"
        /\ UNCHANGED <<conn, now, pending, sessions>>
        /\ IF leftSessionId = NoSession \/ leftUserId = NoUser
           THEN /\ UNCHANGED <<activeUsers, sessionParticipants, rateLimits>>
                /\ out' = {}
                /\ last' = [l EXCEPT !.res = "ignored"]
           ELSE /\ rateLimits' = RateLimitsAfter(userId)
                /\ IF ~checkRateLimit(userId)
                   THEN /\ UNCHANGED <<activeUsers, sessionParticipants>>
                        /\ out' = {}
                        /\ last' = [l EXCEPT !.res = "dropped"]
                   ELSE /\ activeUsers' =
                              SetDelete(activeUsers, leftSessionId, leftUserId)
                        /\ sessionParticipants' =
                              SetDelete(sessionParticipants, leftSessionId, leftUserId)
                        /\ out' = ToRoom(leftSessionId,
                                     [Msg(c, "user-left") EXCEPT !.userId = leftUserId])
                        /\ last' = l
        /\ hist' = HistNext
        /\ net' = NetNext

(***************************************************************************)
(* The relays to a user's inbox room                                       *)
(***************************************************************************)

\* The sockets in room user:<userId>: a socket joins it at connect when its
\* bound userId is truthy.
UserRoom(userId) ==
    IF userId = NoUser THEN {}
    ELSE {c \in Conns : conn[c].st = "open" /\ conn[c].userId = userId}

\* send-friend-request, accept-friend-request and remove-friend have one
\* shape: the limiter, then one emit to the addressee's inbox room.
Relay(c, ev, outEv, toUserId) ==
    LET userId == conn[c].userId
        l == [Last(ev, c, "applied") EXCEPT !.userId = toUserId]
    IN  /\ conn[c].st = "open"
        /\ UNCHANGED <<conn, now, pending, serverVars>>
        /\ rateLimits' = RateLimitsAfter(userId)
        /\ IF ~checkRateLimit(userId)
           THEN /\ out' = {}
                /\ last' = [l EXCEPT !.res = "dropped"]
           ELSE /\ out' = {[Msg(d, outEv) EXCEPT !.userId = userId] : d \in UserRoom(toUserId)}
                /\ last' = l
        /\ hist' = HistNext
        /\ net' = NetNext

SendFriendRequest(c, toUserId) ==
    Relay(c, "send-friend-request", "new-friend-request", toUserId)

AcceptFriendRequest(c, toUserId) ==
    Relay(c, "accept-friend-request", "friend-request-accepted", toUserId)

RemoveFriend(c, toUserId) ==
    Relay(c, "remove-friend", "friend-removed", toUserId)

SendInvite(c, toUserIds) ==
    LET userId == conn[c].userId
        l == Last("send-invite", c, "applied")
    IN  /\ conn[c].st = "open"
        /\ UNCHANGED <<conn, now, pending, serverVars>>
        /\ IF userId = NoUser
           THEN /\ UNCHANGED rateLimits
                /\ out' = {}
                /\ last' = [l EXCEPT !.res = "ignored"]
           ELSE /\ rateLimits' = RateLimitsAfter(userId)
                /\ IF ~checkRateLimit(userId)
                   THEN /\ out' = {}
                        /\ last' = [l EXCEPT !.res = "dropped"]
                   ELSE /\ out' = {[Msg(d, "new-invite") EXCEPT !.userId = userId] :
                                      d \in UNION {UserRoom(id) : id \in toUserIds}}
                        /\ last' = l
        /\ hist' = HistNext
        /\ net' = NetNext

(***************************************************************************)
(* Events without a usable argument.  send-invite, join-session,           *)
(* session-ended, kick-user, user-left and the three friend relays take    *)
(* their argument through a destructuring parameter list, which raises a   *)
(* TypeError when the argument is undefined or null, before the handler's  *)
(* body runs.  What the runtime does with the exception is outside the     *)
(* model: the step records it and leaves the state as the handler left it. *)
(***************************************************************************)

\* The argument of a destructuring handler: nothing at all, or an object.
\* A field the object lacks is falsy.
NoPayload ==
    [null |-> TRUE, user |-> NullUserPayload, userId |-> NoUser,
     sessionId |-> NoSession, toUserId |-> NoUser,
     hasIds |-> FALSE, toUserIds |-> {}, hasSession |-> FALSE]

EmptyPayload == [NoPayload EXCEPT !.null = FALSE]

\* ({ a, b }) => ... binds its names when the argument is an object.
Destructures(payload) == ~payload.null

\* The parameter list raised.
Raise(c, ev) ==
    /\ conn[c].st = "open"
    /\ out' = {}
    /\ last' = [Last(ev, c, "threw") EXCEPT !.shape = "none"]
    /\ UNCHANGED <<conn, serverVars, rateLimits, now, pending>>
    /\ hist' = HistNext
    /\ net' = NetNext

OnJoinSession(c, payload) ==
    IF Destructures(payload) THEN JoinSession(c, payload.user)
    ELSE Raise(c, "join-session")

OnSessionEnded(c, payload) ==
    IF Destructures(payload) THEN SessionEnded(c, payload.sessionId)
    ELSE Raise(c, "session-ended")

OnKickUser(c, payload) ==
    IF Destructures(payload) THEN KickUser(c, payload.userId, payload.sessionId)
    ELSE Raise(c, "kick-user")

OnUserLeft(c, payload) ==
    IF Destructures(payload) THEN UserLeft(c, payload.userId, payload.sessionId)
    ELSE Raise(c, "user-left")

OnSendFriendRequest(c, payload) ==
    IF Destructures(payload) THEN SendFriendRequest(c, payload.toUserId)
    ELSE Raise(c, "send-friend-request")

OnAcceptFriendRequest(c, payload) ==
    IF Destructures(payload) THEN AcceptFriendRequest(c, payload.toUserId)
    ELSE Raise(c, "accept-friend-request")

OnRemoveFriend(c, payload) ==
    IF Destructures(payload) THEN RemoveFriend(c, payload.toUserId)
    ELSE Raise(c, "remove-friend")

\* send-invite dereferences toUserIds and session in its log line, after
\* the limiter: toUserIds.join and session.name raise on undefined.
OnSendInvite(c, payload) ==
    LET userId == conn[c].userId
        l == [Last("send-invite", c, "threw") EXCEPT !.shape = "partial"]
    IN  IF ~Destructures(payload) THEN Raise(c, "send-invite")
        ELSE IF payload.hasIds /\ payload.hasSession
        THEN SendInvite(c, payload.toUserIds)
        ELSE /\ conn[c].st = "open"
             /\ UNCHANGED <<conn, now, pending, serverVars>>
             /\ out' = {}
             /\ IF userId = NoUser
                THEN /\ UNCHANGED rateLimits
                     /\ last' = [l EXCEPT !.res = "ignored"]
                ELSE /\ rateLimits' = RateLimitsAfter(userId)
                     /\ last' = [l EXCEPT !.res = IF checkRateLimit(userId)
                                                  THEN "threw" ELSE "dropped"]
             /\ hist' = HistNext
             /\ net' = NetNext

(***************************************************************************)
(* socket.on("disconnect")                                                 *)
(***************************************************************************)

\* Faulty variant of IsStillOnline: no other socket is ever found.
IsStillOnline_Never(sockets, userId) == FALSE

\* sockets.some((s) => s.handshake.query.userId === userId || s.userId === userId)
\* over the sockets fetchSockets enumerates in the room.
IsStillOnline(sockets, userId) ==
    \E s \in sockets : conn[s].queryUserId = userId \/ conn[s].userId = userId

\* The handler up to its await.  The socket has left its rooms when the
\* handler starts; cursor-remove goes to the sockets still in the room; the
\* in-memory adapter enumerates the room inside the fetchSockets call, so
\* what the continuation will see is fixed here.  With no userId or no
\* sessionId there is no await and the handler is over.
DisconnectBegin(c) ==
    LET sessionId == conn[c].sessionId
        userId == conn[c].userId
        sockets == Room(sessionId) \ {c}
        l == [Last("disconnect", c, "applied") EXCEPT !.userId = userId,
                                                      !.sid = sessionId]
    IN  /\ conn[c].st = "open"
        /\ out' = {[Msg(d, "cursor-remove") EXCEPT !.id = c] : d \in sockets}
        /\ IF userId # NoUser /\ sessionId # NoSession
           THEN /\ conn' = [conn EXCEPT ![c].st = "closing"]
                /\ pending' = Put(pending, c, IsStillOnline(sockets, userId))
                /\ last' = [l EXCEPT !.res = "suspended"]
           ELSE /\ conn' = [conn EXCEPT ![c] = ClosedConn]
                /\ UNCHANGED pending
                /\ last' = [l EXCEPT !.res = "noop"]
        /\ UNCHANGED <<serverVars, rateLimits, now>>
        /\ hist' = HistNext
        /\ net' = NetNext

\* The continuation after the await.
DisconnectFinish(c) ==
    LET sessionId == conn[c].sessionId
        userId == conn[c].userId
        l == [Last("disconnect-resumed", c, "applied") EXCEPT !.userId = userId,
                                                              !.sid = sessionId]
    IN  /\ c \in DOMAIN pending
        /\ conn' = [conn EXCEPT ![c] = ClosedConn]
        /\ pending' = Delete(pending, c)
        /\ IF ~pending[c]
           THEN /\ activeUsers' = SetDelete(activeUsers, sessionId, userId)
                /\ out' = ToRoom(sessionId,
                             [Msg(c, "user-status-change") EXCEPT
                                !.userId = userId, !.status = "offline"])
                /\ last' = l
           ELSE /\ UNCHANGED activeUsers
                /\ out' = {}
                /\ last' = [l EXCEPT !.res = "noop"]
        /\ UNCHANGED <<sessions, sessionParticipants, rateLimits, now>>
        /\ hist' = HistNext
        /\ net' = NetNext

(***************************************************************************)
(* The clock                                                               *)
(***************************************************************************)

Tick(d) ==
    /\ now + d <= MaxNow
    /\ now' = now + d
    /\ out' = {}
    /\ last' = Last("tick", "", "applied")
    /\ UNCHANGED <<conn, serverVars, rateLimits, pending>>
    /\ hist' = HistNext
    /\ net' = NetNext

(***************************************************************************)
(* Initial states                                                          *)
(***************************************************************************)

\* An object with no keys.
Empty == [k \in {} |-> {}]

\* The server after start-up with every user Headroom events short of the
\* cap in a rate-limit window opened at time 0: each user (and the bucket of
\* the sockets without a userId) has had RATE_LIMIT_MAX - Headroom relays to
\* an addressee without a socket accepted, which change nothing but the
\* counters.
InitServer ==
    /\ conn = [c \in Conns |-> IdleConn]
    /\ sessions = Empty
    /\ activeUsers = Empty
    /\ sessionParticipants = Empty
    /\ rateLimits = [u \in Users \cup {NoUser} |->
                       [count |-> RATE_LIMIT_MAX - Headroom,
                        resetTime |-> RATE_LIMIT_WINDOW]]
    /\ now = 0
    /\ pending = Empty
    /\ out = {}
    /\ last = Last("start", "", "applied")

(***************************************************************************)
(* The element protocol: connections of users A and B to the sessions,     *)
(* sending element events.                                                 *)
(***************************************************************************)

\* add-element payloads: every well-formed element with a known id, and one
\* payload for each way of being malformed.
AddPayloads ==
    {Element("e1", "rectangle", "A", 0), Element("e2", "rectangle", "A", 0),
     Element("e2", "rectangle", "B", 0)}
    \cup {NullElement,
          Element("", "rectangle", "A", 0),
          Element("e9", "", "A", 0),
          Element("e8", "rectangle", NoUser, 0)}

\* update-element payloads: new content for a known id, by either author,
\* and a payload that carries nothing but the id.
UpdatePayloads ==
    {Element("e1", "rectangle", "A", 1), Element("e1", "", NoUser, 0), NullElement}

\* Who connects where: two users share session s1, and a third connection
\* is a second tab of A in s1 or B alone in s2.
ConnectPlan ==
    {<<"c1", "s1", "A">>, <<"c2", "s1", "B">>, <<"c3", "s2", "B">>}

InitElems ==
    /\ InitServer
    /\ net = NoNet
    /\ hist = HistInit

\* The connections that send element events; c3 only listens.
Senders == {"c1", "c2"}

NextElems ==
    \/ \E p \in ConnectPlan : Connect(p[1], p[2], p[3], NoToken)
    \/ \E c \in Senders, e \in AddPayloads : AddElement(c, e)
    \/ \E c \in Senders, e \in UpdatePayloads : UpdateElement(c, e)
    \/ \E c \in Senders, u \in Users : UndoElement(c, u)
    \/ \E c \in Senders, i \in ElementIds : DeleteElement(c, i)
    \/ \E c \in Senders, u \in Users : ClearUserElements(c, u)

SpecElems == InitElems /\ [][NextElems]_vars

(***************************************************************************)
(* Concurrent adds and deletes: A and B on session s1 sending add-element  *)
(* and delete-element events only.                                         *)
(***************************************************************************)

CommutePlan ==
    {<<"c1", "s1", "A">>, <<"c2", "s1", "B">>}

CommuteAddPayloads ==
    {Element("e1", "rectangle", "A", 0), Element("e2", "rectangle", "B", 0)}

InitCommute ==
    /\ InitServer
    /\ net = NoNet
    /\ hist = [HistInit EXCEPT !.track = TRUE]

NextCommute ==
    \/ \E p \in CommutePlan : Connect(p[1], p[2], p[3], NoToken)
    \/ \E c \in Conns, e \in CommuteAddPayloads : AddElement(c, e)
    \/ \E c \in Conns, i \in ElementIds : DeleteElement(c, i)

SpecCommute == InitCommute /\ [][NextCommute]_vars

(***************************************************************************)
(* The life of a session: connections of A and B to session s1 opening one *)
(* after the other, adding, deleting, joining and closing, and ending the  *)
(* session.                                                                *)
(***************************************************************************)

LifePlan ==
    {<<"c1", "s1", "A">>, <<"c2", "s1", "B">>, <<"c3", "s1", "A">>}

LifeAddPayloads == {Element("e1", "rectangle", "A", 0)}

InitLife ==
    /\ InitServer
    /\ net = NoNet
    /\ hist = HistInit

NextLife ==
    \/ \E p \in LifePlan : Connect(p[1], p[2], p[3], NoToken)
    \/ \E c \in Conns, e \in LifeAddPayloads : AddElement(c, e)
    \/ \E c \in Conns : DeleteElement(c, "e1")
    \/ \E c \in Conns : JoinSession(c, UserPayload(conn[c].userId))
    \/ \E c \in Conns : SessionEnded(c, "s1")
    \/ \E c \in Conns : DisconnectBegin(c)
    \/ \E c \in Conns : DisconnectFinish(c)

SpecLife == InitLife /\ [][NextLife]_vars

(***************************************************************************)
(* Presence: connections of A and B opening, joining and closing on        *)
(* session s1.  c1 is a tab of A; c2 is B, or a socket that authenticates  *)
(* as B with a token while its query still says userId A; c3 is a second   *)
(* tab of A, on s1 or on s2.                                               *)
(***************************************************************************)

PresencePlan ==
    {<<"c1", "s1", "A", NoToken>>,
     <<"c2", "s1", "B", NoToken>>,
     <<"c2", "s1", "A", GoodToken("B")>>,
     <<"c3", "s1", "A", BadToken>>,
     <<"c3", "s2", "A", NoToken>>}

JoinPayloads == {UserPayload("A"), UserPayload("B"), NullUserPayload}

InitPresence ==
    /\ InitServer
    /\ net = NoNet
    /\ hist = HistInit

NextPresence ==
    \/ \E p \in PresencePlan : Connect(p[1], p[2], p[3], p[4])
    \/ \E c \in Conns, user \in JoinPayloads : JoinSession(c, user)
    \/ \E c \in Conns : DisconnectBegin(c)
    \/ \E c \in Conns : DisconnectFinish(c)

SpecPresence == InitPresence /\ [][NextPresence]_vars

(***************************************************************************)
(* Rate limiting: two tabs of A and one of B on session s1 sending events  *)
(* of several kinds, every one well-formed, while the clock advances.      *)
(***************************************************************************)

RatePlan ==
    {<<"c1", "s1", "A", NoToken>>,
     <<"c2", "s1", "B", NoToken>>,
     <<"c3", "s1", "A", NoToken>>}

RateAddPayloads == {Element("e1", "rectangle", "A", 0)}

\* The clock moves within a window or past its end.
TickSteps == {RATE_LIMIT_WINDOW, RATE_LIMIT_WINDOW + 1}

\* A user's counter is within MaxFresh of the start of a window or within
\* Headroom of the cap, or the user's window has expired.
InScope(u) ==
    \/ now > rateLimits[u].resetTime
    \/ rateLimits[u].count >= RATE_LIMIT_MAX - Headroom
    \/ rateLimits[u].count < MaxFresh

RateScope == \A u \in Users : InScope(u)

InitRate ==
    /\ InitServer
    /\ net = NoNet
    /\ hist = HistInit

NextRate ==
    \/ \E p \in RatePlan : Connect(p[1], p[2], p[3], p[4])
    \/ RateScope /\ \E c \in Conns, e \in RateAddPayloads : AddElement(c, e)
    \/ RateScope /\ \E c \in Conns : CursorMove(c)
    \/ RateScope /\ \E c \in Conns, u \in Users : JoinSession(c, UserPayload(u))
    \/ RateScope /\ \E c \in Conns : SendFriendRequest(c, "B")
    \/ \E d \in TickSteps : Tick(d)

SpecRate == InitRate /\ [][NextRate]_vars

\* The same traffic from clients that name themselves in join-session.
NextRateOwn ==
    \/ \E p \in RatePlan : Connect(p[1], p[2], p[3], p[4])
    \/ RateScope /\ \E c \in Conns, e \in RateAddPayloads : AddElement(c, e)
    \/ RateScope /\ \E c \in Conns : CursorMove(c)
    \/ RateScope /\ \E c \in Conns : JoinSession(c, UserPayload(conn[c].userId))
    \/ RateScope /\ \E c \in Conns : SendFriendRequest(c, "B")
    \/ \E d \in TickSteps : Tick(d)

SpecRateOwn == InitRate /\ [][NextRateOwn]_vars

(***************************************************************************)
(* Session management: A and B on session s1 and a tab of A on s2 joining, *)
(* leaving, kicking and ending sessions, with element events that may      *)
(* arrive after the end.                                                   *)
(***************************************************************************)

SessionPlan ==
    {<<"c1", "s1", "A">>, <<"c2", "s1", "B">>, <<"c3", "s2", "A">>}

\* The connections that send join-session; c1 also sends the management and
\* element events, and c3 only listens.
Managers == {"c1", "c2"}

LateAddPayloads == {Element("e1", "rectangle", "A", 0)}

LateUpdatePayloads == {Element("e1", "rectangle", "A", 1)}

InitSession ==
    /\ InitServer
    /\ net = NoNet
    /\ hist = HistInit

NextSession ==
    \/ \E p \in SessionPlan : Connect(p[1], p[2], p[3], NoToken)
    \/ \E c \in Managers, u \in Users : JoinSession(c, UserPayload(u))
    \/ \E u \in Users : UserLeft("c1", u, "s1")
    \/ \E u \in Users : KickUser("c1", u, "s1")
    \/ SessionEnded("c1", "s1")
    \/ \E e \in LateAddPayloads : AddElement("c1", e)
    \/ \E e \in LateUpdatePayloads : UpdateElement("c1", e)
    \/ DeleteElement("c1", "e1")
    \/ UndoElement("c1", "A")
    \/ ClearUserElements("c1", "A")

SpecSession == InitSession /\ [][NextSession]_vars

(***************************************************************************)
(* The Active Set: tabs of A and B opening on session s1, each announcing  *)
(* its own user with join-session, and closing.                            *)
(***************************************************************************)

ActivePlan ==
    {<<"c1", "s1", "A">>, <<"c2", "s1", "B">>, <<"c3", "s1", "A">>}

InitActive ==
    /\ InitServer
    /\ net = NoNet
    /\ hist = [HistInit EXCEPT !.track = TRUE]

NextActive ==
    \/ \E p \in ActivePlan : Connect(p[1], p[2], p[3], NoToken)
    \/ \E c \in Conns : JoinSession(c, UserPayload(conn[c].userId))
    \/ \E c \in Conns : DisconnectBegin(c)
    \/ \E c \in Conns : DisconnectFinish(c)

SpecActive == InitActive /\ [][NextActive]_vars

(***************************************************************************)
(* Authentication: two sockets opening on session s1 with every            *)
(* combination of handshake userId and token, and sending the events whose *)
(* handling depends on the identity bound to the socket.                   *)
(***************************************************************************)

\* No token, a token that fails verification, and the tokens signed for A
\* and for B.
Tokens == {NoToken, BadToken, GoodToken("A"), GoodToken("B")}

AuthConns == {"c1", "c2"}

AuthAddPayloads == {Element("e1", "rectangle", "A", 0)}

InitAuth ==
    /\ InitServer
    /\ net = NoNet
    /\ hist = HistInit

NextAuth ==
    \/ \E c \in AuthConns, q \in Users \cup {NoUser}, t \in Tokens :
          Connect(c, "s1", q, t)
    \/ \E c \in AuthConns, e \in AuthAddPayloads : AddElement(c, e)
    \/ \E c \in AuthConns, u \in Users : UndoElement(c, u)
    \/ \E c \in AuthConns, u \in Users : SendFriendRequest(c, u)

SpecAuth == InitAuth /\ [][NextAuth]_vars

(***************************************************************************)
(* Unusable events: A and B on session s1 and a socket without a userId,   *)
(* sending every kind of event with its argument missing or lacking        *)
(* fields, between the events that build up a snapshot and the sets.       *)
(***************************************************************************)

MalformedPlan ==
    {<<"c1", "s1", "A">>, <<"c2", "s1", "B">>, <<"c3", "s1", NoUser>>}

\* The connections that send undo-element and send-invite; c1 sends the
\* other events as well, and c2 only listens.
MalformedSenders == {"c1", "c3"}

MalformedAddPayloads ==
    {Element("e1", "rectangle", "A", 0), NullElement, Element("e1", "", "A", 0)}

\* join-session with nothing, {}, {user: {}} and {user: {id: "A"}}.
MalformedJoinPayloads ==
    {NoPayload, EmptyPayload,
     [EmptyPayload EXCEPT !.user = UserPayload(NoUser)],
     [EmptyPayload EXCEPT !.user = UserPayload("A")]}

\* kick-user and user-left with nothing, {}, {userId: "A"} and {sessionId: "s1"}.
MalformedTargetPayloads ==
    {NoPayload, EmptyPayload,
     [EmptyPayload EXCEPT !.userId = "A"],
     [EmptyPayload EXCEPT !.sessionId = "s1"]}

\* send-invite with nothing, {}, {toUserIds: ["B"]} and
\* {toUserIds: ["B"], session: {...}}.
MalformedInvitePayloads ==
    {NoPayload, EmptyPayload,
     [EmptyPayload EXCEPT !.hasIds = TRUE, !.toUserIds = {"B"}],
     [EmptyPayload EXCEPT !.hasIds = TRUE, !.toUserIds = {"B"}, !.hasSession = TRUE]}

\* The other destructuring handlers with nothing and with {}.
MalformedBarePayloads == {NoPayload, EmptyPayload}

InitMalformed ==
    /\ InitServer
    /\ net = NoNet
    /\ hist = HistInit

NextMalformed ==
    \/ \E p \in MalformedPlan : Connect(p[1], p[2], p[3], NoToken)
    \/ \E e \in MalformedAddPayloads : AddElement("c1", e)
    \/ UpdateElement("c1", NullElement)
    \/ \E c \in MalformedSenders : UndoElement(c, NoUser)
    \/ DeleteElement("c1", "")
    \/ ClearUserElements("c1", NoUser)
    \/ CursorMove("c1")
    \/ \E p \in MalformedJoinPayloads : OnJoinSession("c1", p)
    \/ \E p \in MalformedTargetPayloads : OnKickUser("c1", p)
    \/ \E p \in MalformedTargetPayloads : OnUserLeft("c1", p)
    \/ \E p \in MalformedBarePayloads : OnSessionEnded("c1", p)
    \/ \E c \in MalformedSenders, p \in MalformedInvitePayloads : OnSendInvite(c, p)
    \/ \E p \in MalformedBarePayloads : OnSendFriendRequest("c1", p)
    \/ \E p \in MalformedBarePayloads : OnAcceptFriendRequest("c1", p)
    \/ \E p \in MalformedBarePayloads : OnRemoveFriend("c1", p)

SpecMalformed == InitMalformed /\ [][NextMalformed]_vars

(***************************************************************************)
(* Rate limiting of two users side by side: A and B on session s1 send     *)
(* cursor-move and join-session events while the clock moves, and the      *)
(* history keeps, for each of them, the limiter of the run without the     *)
(* other's events.                                                         *)
(***************************************************************************)

SoloPlan == {<<"c1", "s1", "A">>, <<"c2", "s1", "B">>}

SoloConns == {"c1", "c2"}

InitSolo ==
    /\ InitServer
    /\ net = NoNet
    /\ hist = [HistInit EXCEPT !.solo.on = TRUE]

NextSolo ==
    \/ \E p \in SoloPlan : Connect(p[1], p[2], p[3], NoToken)
    \/ RateScope /\ \E c \in SoloConns : CursorMove(c)
    \/ RateScope /\ \E c \in SoloConns, u \in Users : JoinSession(c, UserPayload(u))
    \/ \E d \in TickSteps : Tick(d)

SpecSolo == InitSolo /\ [][NextSolo]_vars

\* The same traffic from clients that name themselves in join-session.
NextSoloOwn ==
    \/ \E p \in SoloPlan : Connect(p[1], p[2], p[3], NoToken)
    \/ RateScope /\ \E c \in SoloConns : CursorMove(c)
    \/ RateScope /\ \E c \in SoloConns : JoinSession(c, UserPayload(conn[c].userId))
    \/ \E d \in TickSteps : Tick(d)

SpecSoloOwn == InitSolo /\ [][NextSoloOwn]_vars

(***************************************************************************)
(* The registry across sessions: A and B on session s1 and a tab of A on   *)
(* s2 connect, join and disconnect, and c1 sends management events that    *)
(* name either session.                                                    *)
(***************************************************************************)

RegistryPlan ==
    {<<"c1", "s1", "A">>, <<"c2", "s1", "B">>, <<"c3", "s2", "A">>}

InitRegistry ==
    /\ InitServer
    /\ net = NoNet
    /\ hist = HistInit

NextRegistry ==
    \/ \E p \in RegistryPlan : Connect(p[1], p[2], p[3], NoToken)
    \/ \E c \in Conns : JoinSession(c, UserPayload(conn[c].userId))
    \/ \E u \in Users, s \in Sessions : KickUser("c1", u, s)
    \/ \E u \in Users, s \in Sessions : UserLeft("c1", u, s)
    \/ \E s \in Sessions : SessionEnded("c1", s)
    \/ \E c \in Conns : DisconnectBegin(c)
    \/ \E c \in Conns : DisconnectFinish(c)

SpecRegistry == InitRegistry /\ [][NextRegistry]_vars

(***************************************************************************)
(* The clients.  A client step is a handler of an inbound message or a     *)
(* user action on the canvas; it changes the client's state and may emit   *)
(* events, which join the client's upstream queue.                         *)
(***************************************************************************)

\* socket.on("init-elements") and onElementsInit: the collection is replaced.
onElementsInit(prev, serverElements) == serverElements

\* socket.on("elements-update") and onElementsUpdate: the collection is replaced.
onElementsUpdate(prev, serverElements) == serverElements

\* onElementAdded of the hooks client: append unless the id is present.
onElementAdded(prev, element) ==
    IF \E i \in 1..Len(prev) : prev[i].id = element.id THEN prev
    ELSE Append(prev, element)

\* onElementUpdated of the hooks client: append when no element has the id,
\* else replace every element of that id.
onElementUpdated(prev, element) ==
    LET has == \E i \in 1..Len(prev) : prev[i].id = element.id
    IN  IF ~has THEN Append(prev, element)
        ELSE [i \in 1..Len(prev) |->
                 IF prev[i].id = element.id THEN element ELSE prev[i]]

\* onElementDeleted, and the element-deleted handler of Whiteboard.tsx.
onElementDeleted(prev, elementId) ==
    SelectSeq(prev, LAMBDA el : el.id # elementId)

\* socket.on("element-added") of Whiteboard.tsx: append.
ElementAdded(prev, element) == Append(prev, element)

\* socket.on("element-updated") of Whiteboard.tsx: replace every element of
\* that id.
ElementUpdated(prev, element) ==
    [i \in 1..Len(prev) |-> IF prev[i].id = element.id THEN element ELSE prev[i]]

\* socket.on("cursor-update"): the map gets an entry under the cursor's id,
\* which is the id of the socket that moved.  The model keeps the keys.
CursorUpdate(prev, cursorId) == prev \cup {cursorId}

\* Faulty variant of CursorRemove: the entry stays.
CursorRemove_Keeps(prev, cursorId) == prev

\* socket.on("cursor-remove"): the entry under that id goes.
CursorRemove(prev, cursorId) == prev \ {cursorId}

\* The client's state after it has handled message m.
Handled(impl, cl, m) ==
    LET prev == cl.elements
    IN  CASE m.ev = "init-elements" ->
                [cl EXCEPT !.elements = onElementsInit(prev, m.elems),
                           !.synced = TRUE]
          [] m.ev = "elements-update" ->
                [cl EXCEPT !.elements = onElementsUpdate(prev, m.elems)]
          [] m.ev = "element-added" ->
                [cl EXCEPT !.elements =
                    IF impl = "hooks" THEN onElementAdded(prev, m.elem)
                    ELSE ElementAdded(prev, m.elem)]
          [] m.ev = "element-updated" ->
                [cl EXCEPT !.elements =
                    IF impl = "hooks" THEN onElementUpdated(prev, m.elem)
                    ELSE ElementUpdated(prev, m.elem)]
          [] m.ev = "element-deleted" ->
                [cl EXCEPT !.elements = onElementDeleted(prev, m.id)]
          [] m.ev = "cursor-update" ->
                [cl EXCEPT !.cursors = CursorUpdate(@, m.id)]
          [] m.ev = "cursor-remove" ->
                [cl EXCEPT !.cursors = CursorRemove(@, m.id)]
          [] OTHER -> cl

\* The client of socket c handles the oldest message sent to it.
Deliver(c) ==
    /\ net.on
    /\ conn[c].st = "open"
    /\ net.down[c] # <<>>
    /\ LET m == Head(net.down[c])
       IN  /\ net' = [net EXCEPT
                        !.down[c] = Tail(@),
                        !.client[c] = Handled(net.impl, @, m),
                        !.shown[c] = IF m.ev = "cursor-update"
                                     THEN @ \cup {m.id} ELSE @]
           /\ last' = [Last(m.ev, c, "applied") EXCEPT !.elem = m.elem, !.id = m.id]
    /\ out' = {}
    /\ UNCHANGED <<conn, serverVars, rateLimits, now, pending>>
    /\ hist' = HistNext

\* An event as a client emits it.
Event(ev) == [ev |-> ev, elem |-> NullElement, id |-> ""]

\* A user action: the client's state becomes cl, the events of sent are
\* emitted in order, and fresh element ids have been generated.
ClientStep(c, action, cl, sent, fresh) ==
    /\ net.on
    /\ conn[c].st = "open"
    /\ Len(net.up[c]) + Len(sent) <= MaxUp
    /\ net' = [net EXCEPT
                 !.client[c] = cl,
                 !.up[c] = @ \o sent,
                 !.ids = @ + fresh,
                 !.early = IF sent # <<>> /\ ~net.client[c].synced
                           THEN @ \cup {c} ELSE @]
    /\ last' = Last(action, c, "applied")
    /\ out' = {}
    /\ UNCHANGED <<conn, serverVars, rateLimits, now, pending>>
    /\ hist' = HistNext

\* generateElementId: an id no client has generated before.
ClientIds == <<"e1", "e2", "e3", "e4">>

NewId == ClientIds[net.ids + 1]

\* The user of client c, as the page passes it to the hooks.
ClientUser(c) == conn[c].queryUserId

\* handleMouseDown with a drawing tool: a new element becomes the current
\* element and is sent with add-element.
handleMouseDown(c) ==
    LET cl == net.client[c]
        newElement == Element(NewId, "rectangle", ClientUser(c), 0)
    IN  /\ net.ids < MaxIds
        /\ cl.currentElement.null
        /\ ClientStep(c, "mouse-down",
                      [cl EXCEPT !.currentElement = newElement],
                      <<[Event("add-element") EXCEPT !.elem = newElement]>>, 1)

\* handleMouseMove while drawing: the current element grows and is sent
\* with update-element.
handleMouseMove(c) ==
    LET cl == net.client[c]
        updatedElement == [cl.currentElement EXCEPT !.v = 1]
    IN  /\ ~cl.currentElement.null
        /\ cl.currentElement.v = 0
        /\ ClientStep(c, "mouse-move",
                      [cl EXCEPT !.currentElement = updatedElement],
                      <<[Event("update-element") EXCEPT !.elem = updatedElement]>>, 0)

\* handleMouseUp while drawing: an element that has grown is appended to the
\* collection and sent with update-element, one that has not is deleted.
handleMouseUp(c) ==
    LET cl == net.client[c]
        currentElement == cl.currentElement
        isValid == currentElement.v > 0
    IN  /\ ~currentElement.null
        /\ IF isValid
           THEN ClientStep(c, "mouse-up",
                           [cl EXCEPT !.elements = Append(@, currentElement),
                                      !.currentElement = NullElement],
                           <<[Event("update-element") EXCEPT !.elem = currentElement]>>, 0)
           ELSE ClientStep(c, "mouse-up",
                           [cl EXCEPT !.currentElement = NullElement],
                           <<[Event("delete-element") EXCEPT !.id = currentElement.id]>>, 0)

\* handleTextComplete: a new text element is appended and sent with
\* add-element.
handleTextComplete(c) ==
    LET cl == net.client[c]
        newElement == Element(NewId, "text", ClientUser(c), 0)
    IN  /\ net.ids < MaxIds
        /\ ClientStep(c, "text-complete",
                      [cl EXCEPT !.elements = Append(@, newElement)],
                      <<[Event("add-element") EXCEPT !.elem = newElement]>>, 1)

\* The eraser over an element of the collection, or handleDeleteSelected:
\* the element is removed and delete-element is sent.
handleErase(c, elementId) ==
    LET cl == net.client[c]
    IN  /\ elementId \in IdSet(cl.elements)
        /\ ClientStep(c, "erase",
                      [cl EXCEPT !.elements = onElementDeleted(@, elementId)],
                      <<[Event("delete-element") EXCEPT !.id = elementId]>>, 0)

\* The select tool: mouse-down on an element of the collection and a move;
\* the element is replaced by the moved one, which is sent with
\* update-element.
handleDrag(c, elementId) ==
    LET cl == net.client[c]
        element == cl.elements[CHOOSE i \in 1..Len(cl.elements) :
                                   cl.elements[i].id = elementId]
        moved == [element EXCEPT !.v = 2]
    IN  /\ elementId \in IdSet(cl.elements)
        /\ element.v # 2
        /\ ClientStep(c, "drag",
                      [cl EXCEPT !.elements =
                          [i \in 1..Len(@) |->
                              IF @[i].id = moved.id THEN moved ELSE @[i]]],
                      <<[Event("update-element") EXCEPT !.elem = moved]>>, 0)

\* emitCursorMove: the pointer moved over the canvas.
emitCursorMove(c) ==
    /\ ClientStep(c, "pointer", net.client[c], <<Event("cursor-move")>>, 0)

\* The oldest event client c has emitted is ev, and the sockets can take
\* the messages of one more step.
Recv(c, ev) ==
    /\ net.on
    /\ net.up[c] # <<>>
    /\ Head(net.up[c]).ev = ev
    /\ \A d \in Conns : Len(net.down[d]) < MaxDown

\* The server handles the oldest event of a client.
RecvAddElement(c) == Recv(c, "add-element") /\ AddElement(c, Head(net.up[c]).elem)

RecvUpdateElement(c) ==
    Recv(c, "update-element") /\ UpdateElement(c, Head(net.up[c]).elem)

RecvDeleteElement(c) ==
    Recv(c, "delete-element") /\ DeleteElement(c, Head(net.up[c]).id)

RecvCursorMove(c) == Recv(c, "cursor-move") /\ CursorMove(c)

\* No event and no message is on its way.
Quiet ==
    \A c \in Conns : net.up[c] = <<>> /\ net.down[c] = <<>>

\* Who connects where: A and B share session s1.
WirePlan == {<<"c1", "s1", "A">>, <<"c2", "s1", "B">>}

Clients == {"c1", "c2"}

InitWire(impl) ==
    /\ InitServer
    /\ net = [NoNet EXCEPT !.on = TRUE, !.impl = impl]
    /\ hist = HistInit

(***************************************************************************)
(* Drawing: two hooks clients on session s1 drawing, dragging and erasing. *)
(***************************************************************************)

InitDraw == InitWire("hooks")

\* The client that draws and the client that edits what it sees.
Drawers == {"c1"}

Editors == {"c2"}

NextDraw ==
    \/ \E p \in WirePlan : Connect(p[1], p[2], p[3], NoToken)
    \/ \E c \in Drawers : handleMouseDown(c)
    \/ \E c \in Drawers : handleMouseMove(c)
    \/ \E c \in Drawers : handleMouseUp(c)
    \/ \E c \in Editors, i \in ElementIds : handleDrag(c, i)
    \/ \E c \in Editors, i \in ElementIds : handleErase(c, i)
    \/ \E c \in Clients : RecvAddElement(c)
    \/ \E c \in Clients : RecvUpdateElement(c)
    \/ \E c \in Clients : RecvDeleteElement(c)
    \/ \E c \in Clients : Deliver(c)

SpecDraw == InitDraw /\ [][NextDraw]_vars

(***************************************************************************)
(* Adds and deletes: two hooks clients on session s1 that emit add-element *)
(* and delete-element only (text elements, the eraser, and drawings that   *)
(* end before they have grown).                                            *)
(***************************************************************************)

InitSync == InitWire("hooks")

NextSync ==
    \/ \E p \in WirePlan : Connect(p[1], p[2], p[3], NoToken)
    \/ \E c \in Clients : handleTextComplete(c)
    \/ \E c \in Clients : handleMouseDown(c)
    \/ \E c \in Clients : handleMouseUp(c)
    \/ \E c \in Clients, i \in ElementIds : handleErase(c, i)
    \/ \E c \in Clients : RecvAddElement(c)
    \/ \E c \in Clients : RecvDeleteElement(c)
    \/ \E c \in Clients : Deliver(c)

SpecSync == InitSync /\ [][NextSync]_vars

(***************************************************************************)
(* Cursors: the clients of session s1 move their pointers and disconnect.  *)
(***************************************************************************)

InitCursor == InitWire("hooks")

NextCursor ==
    \/ \E p \in WirePlan : Connect(p[1], p[2], p[3], NoToken)
    \/ \E c \in Clients : emitCursorMove(c)
    \/ \E c \in Clients : RecvCursorMove(c)
    \/ \E c \in Clients : DisconnectBegin(c)
    \/ \E c \in Clients : DisconnectFinish(c)
    \/ \E c \in Clients : Deliver(c)

SpecCursor == InitCursor /\ [][NextCursor]_vars

(***************************************************************************)
(* Identity in Whiteboard.tsx: a signed-in user and a guest on session s1  *)
(* draw and undo.  The component is given the account as its user prop, or *)
(* nothing for a guest.                                                    *)
(***************************************************************************)

\* The user prop: an account has an id and an email, which differ; a guest
\* has none.
Account(id, email) == [signedIn |-> TRUE, id |-> id, email |-> email]

NoAccount == [signedIn |-> FALSE, id |-> NoUser, email |-> NoUser]

\* "guest-" + Math.random()...: the id a component makes up for a guest.
GuestId == "guest-1"

\* const userId = user?.email || guestIdRef.current: what the component
\* stamps on its elements and sends with undo-element.
ComponentUserId(user) == IF user.signedIn THEN user.email ELSE GuestId

\* query: { userId: user?.id || userId }
ComponentQueryUserId(user) ==
    IF user.signedIn THEN user.id ELSE ComponentUserId(user)

\* Who runs which client.
UserOf(c) ==
    IF c = "c1" THEN Account("A", "a@example.com") ELSE NoAccount

IdentityPlan == {"c1", "c2"}

\* onMouseDown with a drawing tool: a new element becomes the current
\* element; nothing is sent.
onMouseDown(c) ==
    LET cl == net.client[c]
        element == Element(NewId, "rectangle", ComponentUserId(UserOf(c)), 0)
    IN  /\ net.ids < MaxIds
        /\ cl.currentElement.null
        /\ ClientStep(c, "mouse-down", [cl EXCEPT !.currentElement = element],
                      <<>>, 1)

\* onMouseUp: the current element is appended and sent with add-element.
onMouseUp(c) ==
    LET cl == net.client[c]
        currentElement == cl.currentElement
    IN  /\ ~currentElement.null
        /\ ClientStep(c, "mouse-up",
                      [cl EXCEPT !.elements = Append(@, currentElement),
                                 !.currentElement = NullElement],
                      <<[Event("add-element") EXCEPT !.elem = currentElement]>>, 0)

\* handleUndo: undo-element is sent with the component's userId.
handleUndo(c) ==
    ClientStep(c, "undo", net.client[c],
               <<[Event("undo-element") EXCEPT !.id = ComponentUserId(UserOf(c))]>>, 0)

RecvUndoElement(c) ==
    Recv(c, "undo-element") /\ UndoElement(c, Head(net.up[c]).id)

\* The model lets a user act when the client has nothing on its way in
\* either direction.
Idle(c) == net.up[c] = <<>> /\ net.down[c] = <<>>

\* As InitWire, with the guest's counter as far below the cap as the users'.
InitIdentity ==
    /\ conn = [c \in Conns |-> IdleConn]
    /\ sessions = Empty
    /\ activeUsers = Empty
    /\ sessionParticipants = Empty
    /\ rateLimits = [u \in Users \cup {NoUser, GuestId} |->
                       [count |-> RATE_LIMIT_MAX - Headroom,
                        resetTime |-> RATE_LIMIT_WINDOW]]
    /\ now = 0
    /\ pending = Empty
    /\ out = {}
    /\ last = Last("start", "", "applied")
    /\ net = [NoNet EXCEPT !.on = TRUE, !.impl = "component"]
    /\ hist = HistInit

NextIdentity ==
    \/ \E c \in IdentityPlan :
          Connect(c, "s1", ComponentQueryUserId(UserOf(c)), NoToken)
    \/ \E c \in IdentityPlan : Idle(c) /\ onMouseDown(c)
    \/ \E c \in IdentityPlan : Idle(c) /\ onMouseUp(c)
    \/ \E c \in IdentityPlan : Idle(c) /\ handleUndo(c)
    \/ \E c \in IdentityPlan : RecvAddElement(c)
    \/ \E c \in IdentityPlan : RecvUndoElement(c)
    \/ \E c \in IdentityPlan : Deliver(c)

SpecIdentity == InitIdentity /\ [][NextIdentity]_vars

(***************************************************************************)
(* The element-updated handlers as functions: client c1, of either         *)
(* implementation, holds any short collection and handles one              *)
(* element-updated.                                                        *)
(***************************************************************************)

\* Elements a collection may hold and an element-updated may carry.
UpsertElements ==
    {Element(i, "rectangle", "A", v) : i \in ElementIds, v \in {0, 1}}

\* The sequences over S of length n.
Tuples(S, n) == [1..n -> S]

UpsertCollections == UNION {Tuples(UpsertElements, n) : n \in 0..MaxLocal}

InitUpsert ==
    /\ conn = [c \in Conns |->
                 IF c = "c1"
                 THEN [IdleConn EXCEPT !.st = "open", !.sessionId = "s1",
                                       !.userId = "A", !.queryUserId = "A"]
                 ELSE IdleConn]
    /\ sessions = Put(Empty, "s1", <<>>)
    /\ activeUsers = Empty
    /\ sessionParticipants = Put(Empty, "s1", {"A"})
    /\ rateLimits = [u \in Users \cup {NoUser} |->
                       [count |-> RATE_LIMIT_MAX - Headroom,
                        resetTime |-> RATE_LIMIT_WINDOW]]
    /\ now = 0
    /\ pending = Empty
    /\ out = {}
    /\ last = Last("start", "", "applied")
    /\ hist = HistInit
    /\ \E impl \in {"hooks", "component"}, prev \in UpsertCollections,
          element \in UpsertElements :
          net = [NoNet EXCEPT
                   !.on = TRUE, !.impl = impl,
                   !.client["c1"] = [NoClient EXCEPT !.elements = prev,
                                                     !.synced = TRUE],
                   !.down["c1"] = <<[Msg("c1", "element-updated") EXCEPT
                                       !.elem = element]>>]

NextUpsert == \E c \in Clients : Deliver(c)

SpecUpsert == InitUpsert /\ [][NextUpsert]_vars

(***************************************************************************)
(* Properties of the element protocol (checked under SpecElems)            *)
(***************************************************************************)

\* The messages of the last step addressed to connection d.
OutTo(d) == {m \in out : m.to = d}

\* The sequence holds exactly the members of the set, each once.
HoldsExactly(elems, set) ==
    /\ {elems[i] : i \in 1..Len(elems)} = set
    /\ Len(elems) = Cardinality(set)

\* C1 as claimed: while only add-element events with pairwise distinct ids
\* have been sent to a session, its snapshot holds exactly the well-formed
\* elements sent, each once, whatever the interleaving.
C1_AllSentAddsStored ==
    \A s \in DOMAIN sessions :
        hist.adds[s].only => HoldsExactly(sessions[s], hist.adds[s].sent)

\* C1 as amended: while only add-element events with pairwise distinct ids
\* have been sent to a session, its snapshot holds exactly the well-formed
\* elements among those the rate limiter let through, each once, whatever
\* the interleaving.
C1_AcceptedAddsStored ==
    \A s \in DOMAIN sessions :
        hist.adds[s].only => HoldsExactly(sessions[s], hist.adds[s].passed)

\* Two connections have had one element each stored in s1 by adds alone.
C1_Witness ==
    /\ "s1" \in DOMAIN sessions
    /\ hist.adds["s1"].only
    /\ Cardinality(hist.adds["s1"].from) = 2
    /\ Len(sessions["s1"]) = 2

\* C2: after an applied delete-element(id) followed by update-element
\* events only, the snapshot holds no element with that id, and an update
\* carrying that id sends nothing.
C2_UpdateNeverResurrects ==
    (hist.tomb.id # "" /\ hist.tomb.sid \in DOMAIN sessions) =>
        /\ hist.tomb.id \notin IdSet(sessions[hist.tomb.sid])
        /\ (last.ev = "update-element" /\ last.elem.id = hist.tomb.id) => out = {}

\* An update carrying the deleted id was processed and found nothing, while
\* the snapshot still holds another element.
C2_Witness ==
    /\ hist.tomb.id # ""
    /\ last.ev = "update-element"
    /\ last.elem.id = hist.tomb.id
    /\ last.res = "noop"
    /\ sessions[hist.tomb.sid] # <<>>

\* The indices of the elements authored by userId.
UserIdx(elems, userId) == {i \in 1..Len(elems) : elems[i].userId = userId}

\* The elements at the indices in keep, in order, from index i on.
RECURSIVE Pick(_, _, _)
Pick(elems, keep, i) ==
    IF i > Len(elems) THEN <<>>
    ELSE (IF i \in keep THEN <<elems[i]>> ELSE <<>>) \o Pick(elems, keep, i + 1)

\* elems without its m elements authored by userId that are closest to the tail.
WithoutLast(elems, userId, m) ==
    Pick(elems,
         {i \in 1..Len(elems) :
             \/ elems[i].userId # userId
             \/ Cardinality({j \in UserIdx(elems, userId) : j > i}) >= m},
         1)

\* C3 as claimed: N undo-element(u) events sent in a row by connections
\* bound to u leave the snapshot the run started from without its min(N, k)
\* elements of u closest to the tail, everything else in place.
C3_UndoRunBySent ==
    hist.run.n > 0 =>
        sessions[hist.run.sid] = WithoutLast(hist.run.base, hist.run.user, hist.run.n)

\* C3 as amended: the same with N counting the events of the run that the
\* rate limiter let through.
C3_UndoRunByAccepted ==
    hist.run.n > 0 =>
        sessions[hist.run.sid] = WithoutLast(hist.run.base, hist.run.user, hist.run.ok)

\* A run of two accepted undos removed the two tail elements of the user
\* and left another user's element in place.
C3_Witness ==
    /\ hist.run.ok = 2
    /\ Cardinality(UserIdx(hist.run.base, hist.run.user)) = 1
    /\ Len(hist.run.base) = 2
    /\ Len(sessions[hist.run.sid]) = 1

\* C4: an undo-element(u) processed while the snapshot holds no element
\* authored by u changes neither the snapshot nor the sets and sends nothing.
C4_UndoWithoutElementsIsNoOp ==
    [][(/\ last'.ev = "undo-element"
        /\ last'.sid \in DOMAIN sessions
        /\ UserIdx(sessions[last'.sid], last'.userId) = {})
       => (/\ sessions' = sessions
           /\ activeUsers' = activeUsers
           /\ sessionParticipants' = sessionParticipants
           /\ out' = {})]_vars

\* An undo by the bound user passed the limiter and the ownership check and
\* found nothing to remove, in a snapshot holding another user's element.
C4_Witness ==
    /\ last.ev = "undo-element"
    /\ last.res = "noop"
    /\ sessions[last.sid] # <<>>

\* C5: a connection opening on a session that has a snapshot is sent one
\* message, init-elements, whose payload is that snapshot, and nobody else
\* is sent anything.
C5_InitElementsIsSnapshot ==
    [][(last'.ev = "connection" /\ last'.sid \in DOMAIN sessions)
       => out' = {[Msg(last'.conn, "init-elements") EXCEPT
                     !.elems = sessions[last'.sid]]}]_vars

\* A connection opened on a two-element snapshot that an update has touched
\* and received both elements.
C5_Witness ==
    /\ last.ev = "connection"
    /\ \E m \in out :
          /\ m.ev = "init-elements"
          /\ Len(m.elems) = 2
          /\ m.elems = sessions[last.sid]
          /\ \E i \in 1..2 : m.elems[i].v = 1

\* C9: an accepted add-element(e) appends e to the snapshot's tail and
\* sends element-added(e) once to every other connection in the session's
\* room and nothing to the sender or to anybody else.
C9_AddAppendsAndFansOut ==
    [][(last'.ev = "add-element" /\ last'.res = "applied")
       => LET c == last'.conn
              s == last'.sid
              e == last'.elem
          IN  /\ sessions'[s] = Append(sessions[s], e)
              /\ \A d \in Conns :
                    {m \in out' : m.to = d} =
                       IF d # c /\ conn[d].st = "open" /\ conn[d].sessionId = s
                       THEN {[Msg(d, "element-added") EXCEPT !.elem = e]}
                       ELSE {}]_vars

\* An add was applied with another connection in the room and a connection
\* open on another session.
C9_Witness ==
    /\ last.ev = "add-element"
    /\ last.res = "applied"
    /\ out # {}
    /\ \E d \in Conns : conn[d].st = "open" /\ conn[d].sessionId # last.sid

\* C10: a successful undo-element sends elements-update with the whole
\* resulting snapshot to every connection in the room, the sender included,
\* and to nobody else; and when a connection of A has sent add e1, add e2
\* into an empty session and then undo(A), the payload is [e1].
C10_UndoSendsWholeSnapshot ==
    [][(last'.ev = "undo-element" /\ last'.res = "applied")
       => LET c == last'.conn
              s == last'.sid
          IN  /\ \A d \in Conns :
                    {m \in out' : m.to = d} =
                       IF conn[d].st = "open" /\ conn[d].sessionId = s
                       THEN {[Msg(d, "elements-update") EXCEPT !.elems = sessions'[s]]}
                       ELSE {}
              /\ {m \in out' : m.to = c} # {}
              /\ (/\ hist.adds[s].only
                  /\ hist.adds[s].from = {c}
                  /\ Len(sessions[s]) = 2
                  /\ UserIdx(sessions[s], conn[c].userId) = {1, 2})
                 => \A m \in out' : m.elems = <<sessions[s][1]>>]_vars

\* Add e1, add e2 and undo by one connection: the room's two connections
\* were sent [e1].
C10_Witness ==
    /\ last.ev = "undo-element"
    /\ last.res = "applied"
    /\ Len(hist.run.base) = 2
    /\ UserIdx(hist.run.base, hist.run.user) = {1, 2}
    /\ Cardinality(out) = 2
    /\ \A m \in out : m.elems = <<hist.run.base[1]>>

\* C12: a delete-element(id) that the limiter lets through, sent by any
\* connection of the session, leaves the snapshot without an element of
\* that id, whoever authored it, and with all its other elements in their
\* order.
C12_DeleteRemovesWhoeverAuthored ==
    [][(/\ last'.ev = "delete-element"
        /\ last'.res \in {"applied", "noop"})
       => LET s == last'.sid
              id == last'.id
          IN  /\ id \notin IdSet(sessions'[s])
              /\ sessions'[s] =
                    Pick(sessions[s],
                         {i \in 1..Len(sessions[s]) : sessions[s][i].id # id}, 1)]_vars

\* A connection deleted an element authored by another user alone, and the
\* snapshot still holds an element.
C12_Witness ==
    /\ last.ev = "delete-element"
    /\ last.res = "applied"
    /\ hist.tomb.authors # {}
    /\ conn[last.conn].userId \notin hist.tomb.authors
    /\ sessions[last.sid] # <<>>

\* The elements authored by userId, in snapshot order.
AuthoredBy(elems, userId) == Pick(elems, UserIdx(elems, userId), 1)

\* C11: an undo-element(t) or clear-user-elements(t) whose t is not the
\* identity bound to the sending connection changes no snapshot and sends
\* nothing; and whatever t is, the event leaves the elements authored by
\* every user other than the sender's bound identity in the snapshot.
C11_UndoAndClearOnlyOwn ==
    [][(/\ last'.ev \in {"undo-element", "clear-user-elements"}
        /\ last'.sid \in DOMAIN sessions)
       => LET s == last'.sid
              u == conn[last'.conn].userId
          IN  /\ last'.userId # u => (sessions' = sessions /\ out' = {})
              /\ \A b \in Users \ {u} :
                    AuthoredBy(sessions'[s], b) = AuthoredBy(sessions[s], b)]_vars

\* A clear-user-elements naming another user, who has an element in the
\* snapshot, passed the limiter and was turned away.
C11_Witness ==
    /\ last.ev = "clear-user-elements"
    /\ last.res = "rejected"
    /\ last.userId # conn[last.conn].userId
    /\ UserIdx(sessions[last.sid], last.userId) # {}

\* The ids left by processing a connection's adds and deletes from i on.
RECURSIVE RunIds(_, _, _)
RunIds(ids, seq, i) ==
    IF i > Len(seq) THEN ids
    ELSE RunIds(IF seq[i].k = "add" THEN ids \cup {seq[i].id} ELSE ids \ {seq[i].id},
                seq, i + 1)

\* The ids left by the interleaving that processes the connections' events
\* one connection after the other.
OneAfterTheOther(seqs) ==
    RunIds(RunIds(RunIds({}, seqs["c1"], 1), seqs["c2"], 1), seqs["c3"], 1)

\* No id is added by one connection and deleted by another.
NoCrossDelete(seqs) ==
    \A c \in Conns : \A d \in Conns \ {c} :
        \A i \in 1..Len(seqs[c]), j \in 1..Len(seqs[d]) :
            ~(/\ seqs[c][i].k = "add" /\ seqs[d][j].k = "del"
              /\ seqs[c][i].id = seqs[d][j].id)

\* C18 as claimed: whatever the interleaving in which the connections'
\* add-element and delete-element events were processed, the snapshot's ids
\* are those left by processing the same events one connection after the
\* other.
C18_SameIdsInEveryInterleaving ==
    \A s \in DOMAIN sessions :
        hist.cd[s].on => IdSet(sessions[s]) = OneAfterTheOther(hist.cd[s].seqs)

\* C18 as amended: the same for the collections in which no id is added by
\* one connection and deleted by another.
C18_SameIdsWithoutCrossDelete ==
    \A s \in DOMAIN sessions :
        (hist.cd[s].on /\ NoCrossDelete(hist.cd[s].seqs))
           => IdSet(sessions[s]) = OneAfterTheOther(hist.cd[s].seqs)

\* One connection has added and deleted an element, another has added one,
\* their events interleaved, and the snapshot holds the second element.
C18_Witness ==
    /\ "s1" \in DOMAIN sessions
    /\ hist.cd["s1"].on
    /\ NoCrossDelete(hist.cd["s1"].seqs)
    /\ hist.cd["s1"].seqs["c1"] = <<[k |-> "add", id |-> "e1"], [k |-> "del", id |-> "e1"]>>
    /\ hist.cd["s1"].seqs["c2"] = <<[k |-> "add", id |-> "e2"]>>
    /\ last.ev = "delete-element"
    /\ last.res = "applied"
    /\ IdSet(sessions["s1"]) = {"e2"}
    /\ Len(sessions["s1"]) = 1

\* C19: an applied update-element puts its payload, as sent, in the place
\* of the stored element with the payload's id and changes nothing else in
\* the snapshot: of two updates for one id, the one processed last is what
\* the snapshot holds, whoever sent it and whatever it and the stored
\* element contain.
C19_LastUpdateWins ==
    [][(last'.ev = "update-element" /\ last'.res = "applied")
       => LET s == last'.sid
              e == last'.elem
              i == CHOOSE k \in 1..Len(sessions[s]) :
                      /\ sessions[s][k].id = e.id
                      /\ \A j \in 1..(k - 1) : sessions[s][j].id # e.id
          IN  /\ Len(sessions'[s]) = Len(sessions[s])
              /\ sessions'[s][i] = e
              /\ \A k \in 1..Len(sessions[s]) :
                    k # i => sessions'[s][k] = sessions[s][k]]_vars

\* Two connections updated one element one after the other, the second
\* with a payload of a lower version and another author, and the snapshot
\* holds the second payload.
C19_Witness ==
    /\ last.ev = "update-element"
    /\ last.res = "applied"
    /\ hist.upd.conn \notin {"", last.conn}
    /\ hist.upd.elem.v > last.elem.v
    /\ hist.upd.elem.userId # last.elem.userId
    /\ \E k \in 1..Len(sessions[last.sid]) : sessions[last.sid][k] = last.elem

\* C24: a clear-user-elements(u) from a connection bound to u that the
\* limiter lets through leaves the snapshot without the elements authored
\* by u and with all the others in their order; when u had authored an
\* element it sends elements-update with the whole resulting snapshot once
\* to every connection in the room, the sender among them, and to nobody
\* else; when u had authored none it sends nothing.
C24_ClearRemovesOwnAndSendsSnapshot ==
    [][(/\ last'.ev = "clear-user-elements"
        /\ last'.res \notin {"ignored", "dropped"}
        /\ last'.userId = conn[last'.conn].userId)
       => LET s == last'.sid
              u == last'.userId
              c == last'.conn
          IN  /\ sessions'[s] =
                    Pick(sessions[s],
                         {i \in 1..Len(sessions[s]) : sessions[s][i].userId # u}, 1)
              /\ \A t \in DOMAIN sessions \ {s} :
                    t \in DOMAIN sessions' /\ sessions'[t] = sessions[t]
              /\ IF UserIdx(sessions[s], u) # {}
                 THEN /\ \A d \in Conns :
                            {m \in out' : m.to = d} =
                               IF conn[d].st = "open" /\ conn[d].sessionId = s
                               THEN {[Msg(d, "elements-update") EXCEPT
                                        !.elems = sessions'[s]]}
                               ELSE {}
                      /\ {m \in out' : m.to = c} # {}
                 ELSE sessions' = sessions /\ out' = {}]_vars

\* A clear removed the sender's elements from a snapshot that still holds
\* another user's element, and both connections of the room were sent the
\* remaining snapshot.
C24_Witness ==
    /\ last.ev = "clear-user-elements"
    /\ last.res = "applied"
    /\ sessions[last.sid] # <<>>
    /\ Cardinality(out) = 2
    /\ \E m \in out : m.to = last.conn /\ m.elems = sessions[last.sid]

\* A clear by a user who has authored nothing, in a snapshot holding
\* another user's element, changed and sent nothing.
C24_WitnessNothingToClear ==
    /\ last.ev = "clear-user-elements"
    /\ last.res = "noop"
    /\ sessions[last.sid] # <<>>
    /\ out = {}

\* C30: a delete-element that the limiter lets through and that names an id
\* not in the session's snapshot leaves the snapshot unchanged and sends no
\* message to any connection.
C30_UnknownDeleteIsNoOp ==
    [][(last'.ev = "delete-element" /\ last'.res = "noop")
       => (sessions' = sessions /\ out' = {})]_vars

\* The part of C30 about the snapshot: it is unchanged.
C30_UnknownDeleteKeepsSnapshot ==
    [][(last'.ev = "delete-element" /\ last'.res = "noop")
       => sessions' = sessions]_vars

\* A delete-element of an id the snapshot does not hold was announced to
\* both connections of the room.
C30_WitnessAnnounced ==
    /\ last.ev = "delete-element"
    /\ last.res = "noop"
    /\ last.id \notin IdSet(sessions[last.sid])
    /\ {m.to : m \in {x \in out : x.ev = "element-deleted" /\ x.id = last.id}}
          = {"c1", "c2"}

\* The payload is null or lacks one of id, type and userId.
LacksField(e) == e.null \/ e.id = "" \/ e.type = "" \/ e.userId = NoUser

\* C21: an add-element whose payload is null or lacks id, type or userId
\* leaves every snapshot as it was and sends no message to any connection.
C21_MalformedAddIsRejected ==
    [][(last'.ev = "add-element" /\ LacksField(last'.elem))
       => (sessions' = sessions /\ out' = {})]_vars

\* An add-element lacking a field passed the limiter and was turned away,
\* with an element in the snapshot and another connection in the room.
C21_Witness ==
    /\ last.ev = "add-element"
    /\ last.res = "rejected"
    /\ ~last.elem.null
    /\ sessions[last.sid] # <<>>
    /\ Room(last.sid) \ {last.conn} # {}

(***************************************************************************)
(* Properties of presence (checked under SpecPresence)                     *)
(***************************************************************************)

Offline(userId) == {m \in out : m.ev = "user-status-change" /\ m.status = "offline"
                                /\ m.userId = userId}

\* C6: the disconnect handler of a connection that left another open
\* connection of its user behind in the session broadcasts no offline
\* transition for that user and leaves the Active Sets as they are.
C6_NoOfflineWhileAnotherTabIsLive ==
    [][(\/ /\ last'.ev = "disconnect"
           /\ ConnsOf(last'.sid, last'.userId, "open") \ {last'.conn} # {}
        \/ /\ last'.ev = "disconnect-resumed"
           /\ last'.conn \in hist.others)
       => (/\ {m \in out' : m.ev = "user-status-change"} = {}
           /\ activeUsers' = activeUsers)]_vars

\* A tab of a joined user has finished disconnecting while another tab of
\* the user is open in the session, and the user is still active.
C6_Witness ==
    /\ last.ev = "disconnect-resumed"
    /\ last.res = "noop"
    /\ ConnsOf(last.sid, last.userId, "open") # {}
    /\ last.sid \in DOMAIN activeUsers
    /\ last.userId \in activeUsers[last.sid]

\* C7: in an episode without a reconnection race, at most one offline
\* transition is broadcast for the user, and once all the user's
\* connections to the session are closed and their handlers done, exactly
\* one has been.
C7_ExactlyOneOffline ==
    \A s \in Sessions, u \in Users :
        LET p == hist.pres[s][u]
        IN  (p.live /\ ~p.raced) =>
               /\ p.offline <= 1
               /\ (ConnsOf(s, u, "open") = {} /\ ConnsOf(s, u, "closing") = {})
                  => p.offline = 1

\* The sockets of another identity whose handshake query names user u.
Impostors(s, u) ==
    {c \in Conns : /\ conn[c].st = "open"
                   /\ conn[c].sessionId = s
                   /\ conn[c].queryUserId = u
                   /\ conn[c].userId # u}

\* C7 holds of the episodes during which no socket bound to another
\* identity carried the user's id in its handshake query.
C7_ExactlyOneOfflineWithoutImpostor ==
    \A s \in Sessions, u \in Users :
        LET p == hist.pres[s][u]
        IN  (p.live /\ ~p.raced /\ ~p.impostor) =>
               /\ p.offline <= 1
               /\ (ConnsOf(s, u, "open") = {} /\ ConnsOf(s, u, "closing") = {})
                  => p.offline = 1

(***************************************************************************)
(* Properties of rate limiting (checked under SpecRate)                    *)
(***************************************************************************)

\* C8: of the events a user has sent in the current window, over all the
\* user's connections and all event kinds, the first RATE_LIMIT_MAX have
\* been let through and no other (so the first event of a new window is let
\* through); a dropped event changes no server state and sends no message.
C8_ExactlyCapPerWindow ==
    [][/\ \A u \in Users :
            hist'.win[u].passed = Min(hist'.win[u].sent, RATE_LIMIT_MAX)
       /\ last'.res = "dropped" => (out' = {} /\ UNCHANGED serverVars)]_vars

(***************************************************************************)
(* Properties of session management (checked under SpecSession)            *)
(***************************************************************************)

\* The set stored under sessionId, empty when there is none.
SetOf(f, sessionId) == IF sessionId \in DOMAIN f THEN f[sessionId] ELSE {}

\* C13: a user-left event leaves every session's Participant Set as it was.
C13_UserLeftKeepsParticipants ==
    [][last'.ev = "user-left" => sessionParticipants' = sessionParticipants]_vars

\* C14: a kick-user{userId, sessionId} that the limiter lets through leaves
\* userId in neither the Participant Set nor the Active Set of the session,
\* changes nothing else in the sets, and sends user-kicked{userId} once to
\* every connection in the session's room, the sender and the kicked user's
\* connections among them, and to nobody else.
C14_KickRemovesAndTellsTheRoom ==
    [][(last'.ev = "kick-user" /\ last'.res = "applied")
       => LET s == last'.sid
              u == last'.userId
          IN  /\ DOMAIN sessionParticipants' = DOMAIN sessionParticipants
              /\ DOMAIN activeUsers' = DOMAIN activeUsers
              /\ \A t \in Sessions :
                    /\ SetOf(sessionParticipants', t) =
                          SetOf(sessionParticipants, t) \ (IF t = s THEN {u} ELSE {})
                    /\ SetOf(activeUsers', t) =
                          SetOf(activeUsers, t) \ (IF t = s THEN {u} ELSE {})
              /\ \A d \in Conns :
                    {m \in out' : m.to = d} =
                       IF conn[d].st = "open" /\ conn[d].sessionId = s
                       THEN {[Msg(d, "user-kicked") EXCEPT !.userId = u]}
                       ELSE {}]_vars

\* A joined user was kicked by another: the sender and the kicked user's
\* connection were told, and the kicker is still active.
C14_Witness ==
    /\ last.ev = "kick-user"
    /\ last.res = "applied"
    /\ last.userId # conn[last.conn].userId
    /\ \E m \in out : m.to = last.conn
    /\ \E m \in out : conn[m.to].userId = last.userId
    /\ hist.member
    /\ SetOf(activeUsers, last.sid) # {}

C16_LateEventsAreNoOps ==
    \A s \in Sessions :
        hist.ended[s].is =>
            /\ s \notin DOMAIN sessions
            /\ s \notin DOMAIN sessionParticipants
            /\ s \notin DOMAIN activeUsers

\* C16 holds of the ended sessions on which no join-session has been
\* applied since the end.
C16_LateEventsButJoinAreNoOps ==
    \A s \in Sessions :
        (hist.ended[s].is /\ ~hist.ended[s].joined) =>
            /\ s \notin DOMAIN sessions
            /\ s \notin DOMAIN sessionParticipants
            /\ s \notin DOMAIN activeUsers

\* C17: a join-session for user u that the limiter lets through leaves the
\* Active Set and the Participant Set of the session holding u, and
\* otherwise as they were, so a repeated join changes neither; it sends
\* active-users, carrying the resulting Active Set, to the joining
\* connection and to no other, and user-status-change{u, online} to every
\* other connection in the room and not to the joiner.
C17_JoinIsIdempotent ==
    [][(last'.ev = "join-session" /\ last'.res = "applied")
       => LET s == last'.sid
              u == last'.userId
              c == last'.conn
              online == [Msg(c, "user-status-change") EXCEPT
                            !.userId = u, !.status = "online"]
          IN  /\ s \in DOMAIN activeUsers' /\ s \in DOMAIN sessionParticipants'
              /\ activeUsers'[s] = SetOf(activeUsers, s) \cup {u}
              /\ sessionParticipants'[s] = SetOf(sessionParticipants, s) \cup {u}
              /\ (u \in SetOf(activeUsers, s) /\ u \in SetOf(sessionParticipants, s))
                 => (activeUsers' = activeUsers
                     /\ sessionParticipants' = sessionParticipants)
              /\ {m \in out' : m.ev = "active-users"} =
                    {[Msg(c, "active-users") EXCEPT !.users = activeUsers'[s]]}
              /\ {m.to : m \in {x \in out' : x.ev = "user-status-change"}} =
                    {d \in Conns : d # c /\ conn[d].st = "open" /\ conn[d].sessionId = s}
              /\ \A m \in out' :
                    m.ev = "user-status-change" => m = [online EXCEPT !.to = m.to]]_vars

\* A user already in both sets joined again with another connection in the
\* room, which was told.
C17_Witness ==
    /\ last.ev = "join-session"
    /\ last.res = "applied"
    /\ hist.member
    /\ \E m \in out : m.ev = "user-status-change" /\ m.to # last.conn
    /\ \E m \in out : m.ev = "active-users" /\ Cardinality(m.users) = 2

(***************************************************************************)
(* Properties of the life of a session (checked under SpecLife)            *)
(***************************************************************************)

\* C20: a connection opening and both steps of a disconnect leave every
\* existing snapshot in the registry with its element sequence; a
\* connection opening on an existing session is sent that sequence in
\* init-elements; and a snapshot leaves the registry in a session-ended
\* step only.
C20_SnapshotOutlivesConnections ==
    [][/\ last'.ev \in {"connection", "disconnect", "disconnect-resumed"}
          => \A s \in DOMAIN sessions :
                s \in DOMAIN sessions' /\ sessions'[s] = sessions[s]
       /\ (last'.ev = "connection" /\ last'.sid \in DOMAIN sessions)
          => \E m \in out' : /\ m.to = last'.conn
                             /\ m.ev = "init-elements"
                             /\ m.elems = sessions[last'.sid]
       /\ \A s \in DOMAIN sessions :
             s \notin DOMAIN sessions' => last'.ev = "session-ended"]_vars

\* A connection opened on a session that holds an element and whose earlier
\* connections have all closed, and received the element.
C20_Witness ==
    /\ last.ev = "connection"
    /\ \A d \in Conns \ {last.conn} : conn[d].st \in {"idle", "closed"}
    /\ \E d \in Conns : conn[d].st = "closed"
    /\ sessions[last.sid] # <<>>
    /\ \E m \in out : m.ev = "init-elements" /\ m.elems = sessions[last.sid]

(***************************************************************************)
(* Properties of unusable events (checked under SpecMalformed)             *)
(***************************************************************************)

\* The event came without its argument, or with an argument lacking a
\* field its handler requires.
MalformedEvent(e) ==
    /\ e.ev \in ClientEvents
    /\ \/ e.shape # "object"
       \/ e.ev = "add-element" /\ LacksField(e.elem)
       \/ e.ev = "update-element" /\ (e.elem.null \/ e.elem.id = "")
       \/ e.ev \in {"undo-element", "clear-user-elements"} /\ e.userId = NoUser
       \/ e.ev = "delete-element" /\ e.id = ""
       \/ e.ev = "join-session" /\ e.userId = NoUser
       \/ e.ev \in {"kick-user", "user-left"}
             /\ (e.userId = NoUser \/ e.sid = NoSession)
       \/ e.ev = "session-ended" /\ e.sid = NoSession
       \/ e.ev \in {"send-friend-request", "accept-friend-request", "remove-friend"}
             /\ e.userId = NoUser

\* C22: whatever the kind of an event whose argument is missing or lacks
\* fields, its handler raises no exception, changes neither the snapshots
\* nor the Participant and Active Sets and leaves the connection open.
C22_MalformedNeverRaisesNorChanges ==
    [][MalformedEvent(last')
       => (/\ last'.res # "threw"
           /\ UNCHANGED serverVars
           /\ conn'[last'.conn].st = "open")]_vars

\* C22 holds of the events that carry an argument, other than a
\* join-session whose user has no id and a send-invite without toUserIds
\* or session.
C22_HoldsWithAnArgument ==
    [][(/\ MalformedEvent(last')
        /\ last'.shape = "object"
        /\ last'.ev # "join-session")
       => (/\ last'.res # "threw"
           /\ UNCHANGED serverVars
           /\ conn'[last'.conn].st = "open")]_vars

(***************************************************************************)
(* Properties of authentication (checked under SpecAuth)                   *)
(***************************************************************************)

\* C23: a connection is accepted whatever its token; the identity bound to
\* it is the userId claim of the token when the token verifies, and the
\* handshake's userId when the token is absent or fails verification; it
\* is marked authenticated exactly when the token verifies.
C23_TokenIdentityOverridesQuery ==
    [][last'.ev = "connection"
       => LET c == last'.conn
              t == last'.token
          IN  /\ conn'[c].st = "open"
              /\ t.kind = "valid" => conn'[c].userId = t.userId
              /\ t.kind \in {"none", "invalid"}
                    => conn'[c].userId = conn'[c].queryUserId
              /\ conn'[c].authenticated = (t.kind = "valid")
              /\ t.kind = "invalid" => ~conn'[c].authenticated]_vars

\* Two sockets whose handshakes name A are open: one presented a token
\* signed for B and is bound to B, the other a token that fails
\* verification and is bound to A, unauthenticated.
C23_Witness ==
    /\ last.ev = "connection"
    /\ last.token.kind = "invalid"
    /\ conn[last.conn].st = "open"
    /\ conn[last.conn].userId = "A"
    /\ ~conn[last.conn].authenticated
    /\ \E d \in Conns \ {last.conn} :
          /\ conn[d].st = "open"
          /\ conn[d].queryUserId = "A"
          /\ conn[d].userId = "B"
          /\ conn[d].authenticated

(***************************************************************************)
(* Properties of the Active Set (checked under SpecActive)                 *)
(***************************************************************************)

\* Every user in an Active Set has an open connection bound to the session,
\* and every open connection whose join-session was applied has its user
\* in the Active Set of its session.
ActiveIsLive ==
    /\ \A s \in DOMAIN activeUsers : \A u \in activeUsers[s] :
          ConnsOf(s, u, "open") # {}
    /\ \A c \in hist.joined :
          conn[c].st = "open"
             => conn[c].userId \in SetOf(activeUsers, conn[c].sessionId)

\* C25: in every reachable state, every user in a session's Active Set has
\* a live connection bound to the session, and every user with a live
\* connection that has sent join-session for the session is in its Active
\* Set.
C25_ActiveSetIsLiveJoined == ActiveIsLive

\* C25 restricted to the states in which no disconnect handler is
\* suspended at its await.
C25_ActiveSetIsLiveJoinedAtRest == (DOMAIN pending = {}) => ActiveIsLive

(***************************************************************************)
(* Properties of the cursors (checked under SpecCursor)                    *)
(***************************************************************************)

IsUpsert(prev, element, next) ==
    IF element.id \in IdSet(prev)
    THEN /\ Len(next) = Len(prev)
         /\ \A i \in 1..Len(prev) :
               next[i] = IF prev[i].id = element.id THEN element ELSE prev[i]
    ELSE next = Append(prev, element)

\* C27: a client that handles element-updated replaces in place, at the
\* same index and without a change of length, the element of the incoming
\* id when the collection holds one, and appends the incoming element when
\* it holds none; this for the hooks client and for Whiteboard.tsx.
C27_UpdatedIsUpsert ==
    [][last'.ev = "element-updated"
       => IsUpsert(net.client[last'.conn].elements, last'.elem,
                   net'.client[last'.conn].elements)]_vars

\* The hooks client handles element-updated by upsert.
C27_HooksUpsert ==
    [][(last'.ev = "element-updated" /\ net.impl = "hooks")
       => IsUpsert(net.client[last'.conn].elements, last'.elem,
                   net'.client[last'.conn].elements)]_vars

\* Whiteboard.tsx replaces in place when the id is present and leaves the
\* collection as it is when the id is not.
C27_ComponentReplacesOnly ==
    [][(last'.ev = "element-updated" /\ net.impl = "component")
       => LET prev == net.client[last'.conn].elements
              next == net'.client[last'.conn].elements
          IN  IF last'.elem.id \in IdSet(prev)
              THEN IsUpsert(prev, last'.elem, next)
              ELSE next = prev]_vars

\* Both clients have handled an element-updated for an id the collection
\* did not hold: the hooks client holds the element, Whiteboard.tsx does not.
C27_WitnessHooksAppended ==
    /\ last.ev = "element-updated"
    /\ net.impl = "hooks"
    /\ net.client[last.conn].elements =
          <<Element("e2", "rectangle", "A", 0), last.elem>>
    /\ last.elem.id = "e1"

C27_WitnessComponentDropped ==
    /\ last.ev = "element-updated"
    /\ net.impl = "component"
    /\ net.client[last.conn].elements = <<Element("e2", "rectangle", "A", 0)>>
    /\ last.elem.id = "e1"

(***************************************************************************)
(* Properties of drawing (checked under SpecDraw)                          *)
(***************************************************************************)

\* No two elements of the collection have the same id.
DistinctIds(elems) ==
    \A i \in 1..Len(elems), j \in 1..Len(elems) :
        elems[i].id = elems[j].id => i = j

\* C28: whatever the interleaving of a user's drawing actions with the
\* inbound element messages, no client's collection holds two elements of
\* the same id.
C28_LocalIdsAreDistinct ==
    \A c \in Conns : DistinctIds(net.client[c].elements)

(***************************************************************************)
(* Properties of adds and deletes (checked under SpecSync)                 *)
(***************************************************************************)

\* Every connected client holds the ids of its session's snapshot.
IdsAgree ==
    \A c \in Conns :
        conn[c].st = "open"
        => IdSet(net.client[c].elements) = IdSet(sessions[conn[c].sessionId])

\* C29: when the clients have emitted add-element and delete-element events
\* only, the server has accepted all of them, and every event and message
\* has been handled in the order of its connection, each connected client's
\* collection holds the ids of the server's snapshot.
C29_IdsAgreeAtRest ==
    (Quiet /\ ~net.lost) => IdsAgree

\* No client is in the middle of a drawing.
NoneDrawing == \A c \in Conns : net.client[c].currentElement.null

\* The same for clients that emit nothing before they have handled their
\* init-elements, at a time when no drawing is in progress.
C29_IdsAgreeAtRestAfterInit ==
    (Quiet /\ ~net.lost /\ net.early = {} /\ NoneDrawing) => IdsAgree

\* Two clients that waited for init-elements have added and deleted, and
\* everything has been handled.
C29_WitnessAfterInit ==
    /\ Quiet /\ ~net.lost /\ net.early = {} /\ NoneDrawing
    /\ net.ids = MaxIds
    /\ \A c \in Clients : conn[c].st = "open"
    /\ Len(sessions["s1"]) = 1
    /\ last.ev = "element-deleted"

(***************************************************************************)
(* Further properties of the element protocol (checked under SpecElems)    *)
(***************************************************************************)

\* C31: an applied update-element leaves the snapshot with the length and
\* the sequence of element ids it had; the incoming element is at the index
\* of the first element of its id and every other element is untouched.
C31_UpdateKeepsOrder ==
    [][(last'.ev = "update-element" /\ last'.res = "applied")
       => LET s == last'.sid
              i == FindIndex(sessions[s], last'.elem.id)
          IN  /\ Len(sessions'[s]) = Len(sessions[s])
              /\ Ids(sessions'[s]) = Ids(sessions[s])
              /\ sessions'[s][i] = last'.elem
              /\ \A j \in 1..Len(sessions[s]) :
                    j # i => sessions'[s][j] = sessions[s][j]]_vars

\* An update replaced the first of two stored elements with new content.
C31_Witness ==
    /\ last.ev = "update-element"
    /\ last.res = "applied"
    /\ Len(sessions[last.sid]) = 2
    /\ sessions[last.sid][1] = last.elem
    /\ last.elem.v = 1
    /\ sessions[last.sid][2].id # last.elem.id

\* C33: no snapshot holds two elements of the same id, whatever element
\* events have been handled, add-element events that repeat a stored id
\* included.
C33_SnapshotIdsAreDistinct ==
    \A s \in DOMAIN sessions :
        \A i \in 1..Len(sessions[s]), j \in 1..Len(sessions[s]) :
            sessions[s][i].id = sessions[s][j].id => i = j

\* Only add-element makes a snapshot hold an id twice.
C33_OnlyAddRepeatsAnId ==
    [][(C33_SnapshotIdsAreDistinct /\ last'.ev # "add-element")
       => C33_SnapshotIdsAreDistinct']_vars

\* An add-element was applied whose id the snapshot already held.
C33_WitnessRepeatedAdd ==
    /\ last.ev = "add-element"
    /\ last.res = "applied"
    /\ Len(sessions[last.sid]) = 2
    /\ sessions[last.sid][1].id = last.elem.id
    /\ sessions[last.sid][2] = last.elem

\* C34: every element stored in a snapshot has a non-empty id, type and
\* authoring userId, after every event, update-element included.
C34_StoredElementsAreWellFormed ==
    \A s \in DOMAIN sessions :
        \A i \in 1..Len(sessions[s]) : WellFormed(sessions[s][i])

\* Only update-element stores an element that is not well-formed.
C34_OnlyUpdateStoresMalformed ==
    [][(C34_StoredElementsAreWellFormed /\ last'.ev # "update-element")
       => C34_StoredElementsAreWellFormed']_vars

\* An update-element that carries nothing but an id replaced a stored
\* element.
C34_WitnessBareUpdate ==
    /\ last.ev = "update-element"
    /\ last.res = "applied"
    /\ last.elem.type = ""
    /\ last.elem.userId = NoUser
    /\ \E i \in 1..Len(sessions[last.sid]) : sessions[last.sid][i] = last.elem

(***************************************************************************)
(* Properties of the registry across sessions (checked under SpecRegistry) *)
(***************************************************************************)

\* C35: for every session the Active Set is a subset of the Participant
\* Set, under any interleaving of connect, join-session, kick-user,
\* user-left, session-ended and disconnect.
C35_ActiveWithinParticipants ==
    \A s \in Sessions : SetOf(activeUsers, s) \subseteq SetOf(sessionParticipants, s)

\* A kick removed a user from both sets of a session that keeps a
\* participant who is not active.
C35_Witness ==
    /\ last.ev = "kick-user"
    /\ last.res = "applied"
    /\ SetOf(activeUsers, last.sid) # SetOf(sessionParticipants, last.sid)
    /\ last.userId \notin SetOf(sessionParticipants, last.sid)
    /\ hist.member

\* A disconnect took a user out of the Active Set of a session whose
\* Participant Set keeps them.
C35_WitnessDisconnected ==
    /\ last.ev = "disconnect-resumed"
    /\ last.res = "applied"
    /\ last.userId \in SetOf(sessionParticipants, last.sid)
    /\ last.userId \notin SetOf(activeUsers, last.sid)
    /\ SetOf(activeUsers, last.sid) # {}

\* The session the connection of the step just taken is bound to.
BoundSession ==
    IF last'.ev = "connection" THEN conn'[last'.conn].sessionId
    ELSE conn[last'.conn].sessionId

\* The step left f as it was at every session but s.
SameElsewhere(f, g, s) ==
    \A t \in Sessions \ {s} :
        /\ t \in DOMAIN f <=> t \in DOMAIN g
        /\ t \in DOMAIN f => f[t] = g[t]

\* The step changed nothing of, and sent nothing to the room of, a session
\* other than the one its connection is bound to.
StepIsIsolated ==
    /\ SameElsewhere(sessions, sessions', BoundSession)
    /\ SameElsewhere(sessionParticipants, sessionParticipants', BoundSession)
    /\ SameElsewhere(activeUsers, activeUsers', BoundSession)
    /\ \A m \in out' :
          conn[m.to].st = "open" => conn[m.to].sessionId = BoundSession

\* C36: an event of a connection bound to session S never changes the
\* snapshot, the Participant Set or the Active Set of another session and
\* never sends a message to the room of another session.
C36_SessionsAreIsolated ==
    [][last'.conn \in Conns => StepIsIsolated]_vars

\* The same for every event but session-ended, kick-user and user-left.
C36_BoundEventsAreIsolated ==
    [][(/\ last'.conn \in Conns
        /\ last'.ev \notin {"session-ended", "kick-user", "user-left"})
       => StepIsIsolated]_vars

\* c1, bound to s1, has kicked a user of s2, and the socket in the room of
\* s2 was told.
C36_WitnessKickedElsewhere ==
    /\ last.ev = "kick-user"
    /\ last.res = "applied"
    /\ last.conn = "c1"
    /\ conn["c1"].sessionId = "s1"
    /\ last.sid = "s2"
    /\ hist.member
    /\ \E m \in out : m.to = "c3" /\ m.ev = "user-kicked"

(***************************************************************************)
(* Properties of rate limiting side by side (checked under SpecSolo)       *)
(***************************************************************************)

\* C37: whether an event of a connection bound to a user is let through or
\* dropped is the same in the run and in the run that differs from it by
\* having no event of any other user's connection.
C37_DropsDependOnOwnEventsOnly ==
    [][(ReachedLimiter(last') /\ conn[last'.conn].userId \in Users)
       => ((last'.res = "dropped")
           <=> ~PassesIn(hist.solo.lim[conn[last'.conn].userId],
                         LimiterKey(last')))]_vars

\* A cursor-move of B was dropped that the limiter lets through in the run
\* without A's events.
C37_WitnessDroppedByAnother ==
    /\ last.ev = "cursor-move"
    /\ last.res = "dropped"
    /\ conn[last.conn].userId = "B"
    /\ hist.solo.lim["B"]["B"].count < RATE_LIMIT_MAX
    /\ hist.solo.lim["B"]["B"].resetTime = rateLimits["B"].resetTime

(***************************************************************************)
(* Properties of suspension (checked under SpecActive)                     *)
(***************************************************************************)

\* C32: no event of another connection is handled between a handler's read
\* of the connections and the registry and the mutation or broadcast it
\* bases on that read: while a disconnect handler is suspended, the only
\* step taken is its resumption.
C32_HandlersAreAtomic ==
    [][DOMAIN pending # {}
       => (last'.ev = "disconnect-resumed" /\ last'.conn \in DOMAIN pending)]_vars

\* A disconnect handler that resumes in the step after it was suspended
\* acts on what the room holds then.
C32_UninterruptedDisconnectIsCurrent ==
    [][(/\ last.ev = "disconnect"
        /\ last'.ev = "disconnect-resumed"
        /\ last'.conn = last.conn)
       => (last'.res = "applied"
           <=> ConnsOf(last'.sid, last'.userId, "open") = {})]_vars

\* A disconnect handler has resumed and taken its user out of the Active
\* Set although a connection of the user, opened while the handler was
\* suspended, is in the room.
C32_WitnessStaleDecision ==
    /\ last.ev = "disconnect-resumed"
    /\ last.res = "applied"
    /\ ConnsOf(last.sid, last.userId, "open") # {}

(***************************************************************************)
(* Properties of identity in Whiteboard.tsx (checked under SpecIdentity)   *)
(***************************************************************************)

\* The undo-element just handled got past the limiter and names the author
\* of the snapshot's last element, and the sender is that author's client.
UndoByAuthorOfLast ==
    /\ last'.ev = "undo-element"
    /\ last'.res \notin {"dropped", "ignored"}
    /\ sessions[last'.sid] # <<>>
    /\ sessions[last'.sid][Len(sessions[last'.sid])].userId = last'.userId
    /\ last'.userId = ComponentUserId(UserOf(last'.conn))

\* C39: the identity the component stamps on its elements and sends with
\* undo-element is the identity the server has bound to its connection, so
\* that an undo by the author of the snapshot's last element passes the
\* ownership check and removes that element; for accounts and for guests.
C39_AuthorCanUndo ==
    [][UndoByAuthorOfLast
       => (/\ ComponentUserId(UserOf(last'.conn)) = conn[last'.conn].userId
           /\ last'.res = "applied"
           /\ sessions'[last'.sid] =
                 SubSeq(sessions[last'.sid], 1, Len(sessions[last'.sid]) - 1))]_vars

\* The same for guests.
C39_GuestCanUndo ==
    [][(UndoByAuthorOfLast /\ ~UserOf(last'.conn).signedIn)
       => (/\ ComponentUserId(UserOf(last'.conn)) = conn[last'.conn].userId
           /\ last'.res = "applied"
           /\ sessions'[last'.sid] =
                 SubSeq(sessions[last'.sid], 1, Len(sessions[last'.sid]) - 1))]_vars

\* The undo of an account is always turned down by the ownership check.
C39_AccountCannotUndo ==
    [][(/\ last'.ev = "undo-element"
        /\ last'.res \notin {"dropped", "ignored"}
        /\ UserOf(last'.conn).signedIn)
       => (last'.res = "rejected" /\ sessions' = sessions)]_vars

\* A guest has undone the last element, which it had drawn, and the account
\* has had an undo of its own last element turned down.
C39_WitnessGuestUndid ==
    /\ last.ev = "undo-element"
    /\ last.res = "applied"
    /\ last.userId = GuestId
    /\ conn[last.conn].userId = GuestId

C39_WitnessAccountRejected ==
    /\ last.ev = "undo-element"
    /\ last.res = "rejected"
    /\ last.conn = "c1"
    /\ sessions[last.sid] # <<>>
    /\ sessions[last.sid][Len(sessions[last.sid])].userId = last.userId

(***************************************************************************)
(* Properties of the z-order (checked under SpecSync)                      *)
(***************************************************************************)

\* Everything has been handled: no event and no message is on its way, the
\* server dropped nothing, no client emitted before its init-elements and no
\* drawing is in progress.
AtRest == Quiet /\ ~net.lost /\ net.early = {} /\ NoneDrawing

\* Client c holds the ids of its session's snapshot in the snapshot's order.
OrderAgrees(c) ==
    Ids(net.client[c].elements) = Ids(sessions[conn[c].sessionId])

\* C38: when every accepted event has been handled and every message has
\* been delivered, each connected client's collection lists the element ids
\* in the order of the server's snapshot, also after two clients have added
\* elements at the same time.
C38_OrderAgreesAtRest ==
    AtRest => \A c \in Conns : conn[c].st = "open" => OrderAgrees(c)

\* The elements of the snapshot all have one author.
OneAuthor(elems) ==
    \A i, j \in 1..Len(elems) : elems[i].userId = elems[j].userId

\* The same for snapshots whose elements were all added by one client.
C38_OrderAgreesForOneAuthor ==
    (AtRest /\ \A s \in DOMAIN sessions : OneAuthor(sessions[s]))
        => \A c \in Conns : conn[c].st = "open" => OrderAgrees(c)

\* Two clients hold the same two elements at rest, each with its own
\* element first.
C38_WitnessCrossedAdds ==
    /\ AtRest
    /\ \A c \in Clients : conn[c].st = "open"
    /\ Len(sessions["s1"]) = 2
    /\ IdSet(net.client["c1"].elements) = IdSet(sessions["s1"])
    /\ IdSet(net.client["c2"].elements) = IdSet(sessions["s1"])
    /\ Ids(net.client["c1"].elements) # Ids(net.client["c2"].elements)

\* One client has added two elements and the other holds them in the same
\* order.
C38_WitnessOneAuthor ==
    /\ AtRest
    /\ \A c \in Clients : conn[c].st = "open"
    /\ Len(sessions["s1"]) = 2
    /\ OneAuthor(sessions["s1"])
    /\ \A c \in Clients : OrderAgrees(c)

====
